---- MODULE Spec2Model ----
(***************************************************************************)
(* Invoice extraction / reconciliation / validation pipeline and the       *)
(* upload / approve handlers around it.                                    *)
(*                                                                         *)
(* Numbers.  The program computes on Python floats that carry decimal      *)
(* amounts.  Here every number is an integer count of thousandths          *)
(* (30.00 is 30000, 0.509 is 509), a product of two numbers is a count of  *)
(* millionths, and all arithmetic is exact.  round(x, 2) is modelled as    *)
(* rounding to the nearest hundredth, ties to even.                        *)
(*                                                                         *)
(* Optional values.  Python's None is the empty tuple and a present value  *)
(* v is the one-element tuple <<v>>.                                       *)
(***************************************************************************)
EXTENDS Integers, Sequences, FiniteSets, TLC

VARIABLES
    pc,                 \* position of the pipeline / last handler that ran
    raw,                \* InvoiceData as built by _convert_to_invoice_data
    extracted_data,     \* InvoiceData after _apply_math_corrections
    session,            \* the db_session handed to validate
    validation_result,  \* ValidationResult returned by validate
    invoices,           \* rows of the invoices table, in id order
    request,            \* the last request and what its collaborators did
    response,           \* what the last handler returned or raised
    extraction,         \* the progress of one extract_invoice_data call
    uploads             \* the upload requests running side by side, by worker

vars == <<pc, raw, extracted_data, session, validation_result, invoices,
          request, response, extraction, uploads>>

----------------------------------------------------------------------------
(* Optional values and exact decimal arithmetic *)

None == <<>>

Some(v) == <<v>>

Val(o) == o[1]

Abs(x) == IF x < 0 THEN -x ELSE x

\* nearest integer to n / d (d > 0), ties to the even neighbour
RoundHalfEven(n, d) ==
    LET q == n \div d
        r == n % d
    IN  IF 2 * r < d THEN q
        ELSE IF 2 * r > d THEN q + 1
        ELSE IF q % 2 = 0 THEN q ELSE q + 1

\* round(x, 2) of a value given in thousandths; the result is in thousandths
Round2(x) == 10 * RoundHalfEven(x, 10)

\* round(a * b, 2) of a product given in millionths; the result is in thousandths
Round2Product(x) == 10 * RoundHalfEven(x, 10000)

\* Python truthiness of an Optional[str]: None and "" are falsy
Truthy(s) == s # None /\ Val(s) # ""

----------------------------------------------------------------------------
(* schemas.py *)

LineItem(product_name, quantity, unit_price, amount) ==
    [product_name |-> product_name, quantity |-> quantity,
     unit_price |-> unit_price, amount |-> amount]

\* InvoiceData with every field at its default
EmptyInvoiceData ==
    [vendor_name |-> None, invoice_number |-> None, invoice_date |-> None,
     line_items |-> <<>>, subtotal |-> None,
     discount_percentage |-> None, discount_amount |-> None,
     cgst_rate |-> None, cgst_amount |-> None,
     sgst_rate |-> None, sgst_amount |-> None,
     tax |-> None, total_amount |-> None, currency |-> None]

----------------------------------------------------------------------------
(* extraction.py: _apply_math_corrections *)

\* the line-item step with the 0.5 tolerance of the later steps
CorrectLineItemLoose(item) ==
    IF item.quantity # None /\ item.unit_price # None
    THEN LET calculated_amount ==
                 Round2Product(Val(item.quantity) * Val(item.unit_price))
         IN  IF item.amount # None
             THEN IF Abs(calculated_amount - Val(item.amount)) > 500
                  THEN [item EXCEPT !.amount = Some(calculated_amount)]
                  ELSE item
             ELSE [item EXCEPT !.amount = Some(calculated_amount)]
    ELSE item

\* lines 309-320, the body of the loop for one line item
CorrectLineItem(item) ==
    IF item.quantity # None /\ item.unit_price # None
    THEN LET calculated_amount ==
                 Round2Product(Val(item.quantity) * Val(item.unit_price))
         IN  IF item.amount # None
             THEN IF Abs(calculated_amount - Val(item.amount)) > 10
                  THEN [item EXCEPT !.amount = Some(calculated_amount)]
                  ELSE item
             ELSE [item EXCEPT !.amount = Some(calculated_amount)]
    ELSE item

CorrectLineItems(d) ==
    [d EXCEPT !.line_items =
        [i \in 1..Len(d.line_items) |-> CorrectLineItem(d.line_items[i])]]

\* sum(item.amount for item in items if item.amount is not None)
RECURSIVE SumAmounts(_)
SumAmounts(items) ==
    IF items = <<>> THEN 0
    ELSE (IF Head(items).amount # None THEN Val(Head(items).amount) ELSE 0)
         + SumAmounts(Tail(items))

\* lines 322-337
CorrectSubtotal(d) ==
    IF d.line_items # <<>>
    THEN LET calculated_subtotal == Round2(SumAmounts(d.line_items))
         IN  IF d.subtotal # None
             THEN IF Abs(calculated_subtotal - Val(d.subtotal)) > 500
                  THEN [d EXCEPT !.subtotal = Some(calculated_subtotal)]
                  ELSE d
             ELSE [d EXCEPT !.subtotal = Some(calculated_subtotal)]
    ELSE d

\* lines 339-349; subtotal * discount_percentage is in millionths of a
\* percent-amount, so dividing by 100 and rounding to hundredths divides by 10^6
CorrectDiscount(d) ==
    IF d.discount_percentage # None /\ d.subtotal # None
    THEN LET calculated_discount ==
                 10 * RoundHalfEven(Val(d.subtotal) * Val(d.discount_percentage),
                                    1000000)
         IN  IF d.discount_amount # None
             THEN IF Abs(calculated_discount - Val(d.discount_amount)) > 500
                  THEN [d EXCEPT !.discount_amount = Some(calculated_discount)]
                  ELSE d
             ELSE [d EXCEPT !.discount_amount = Some(calculated_discount)]
    ELSE d

\* lines 351-368
CorrectTax(d) ==
    IF d.cgst_amount # None \/ d.sgst_amount # None
    THEN LET calculated_tax ==
                 Round2((IF d.cgst_amount # None THEN Val(d.cgst_amount) ELSE 0)
                        + (IF d.sgst_amount # None THEN Val(d.sgst_amount) ELSE 0))
         IN  IF d.tax # None
             THEN IF Abs(calculated_tax - Val(d.tax)) > 500 /\ calculated_tax > 0
                  THEN [d EXCEPT !.tax = Some(calculated_tax)]
                  ELSE d
             ELSE IF calculated_tax > 0
                  THEN [d EXCEPT !.tax = Some(calculated_tax)]
                  ELSE d
    ELSE d

\* an absent grand total is left absent
CorrectTotalKeepsAbsent(d) ==
    IF d.subtotal # None /\ d.total_amount # None
    THEN LET calculated_total ==
                 Round2(Val(d.subtotal)
                        - (IF d.discount_amount # None THEN Val(d.discount_amount) ELSE 0)
                        + (IF d.tax # None THEN Val(d.tax) ELSE 0))
         IN  IF Abs(calculated_total - Val(d.total_amount)) > 500
             THEN [d EXCEPT !.total_amount = Some(calculated_total)]
             ELSE d
    ELSE d

\* the grand total is built without the discount
CorrectTotalNoDiscount(d) ==
    IF d.subtotal # None
    THEN LET calculated_total ==
                 Round2(Val(d.subtotal) + (IF d.tax # None THEN Val(d.tax) ELSE 0))
         IN  IF d.total_amount # None
             THEN IF Abs(calculated_total - Val(d.total_amount)) > 500
                  THEN [d EXCEPT !.total_amount = Some(calculated_total)]
                  ELSE d
             ELSE [d EXCEPT !.total_amount = Some(calculated_total)]
    ELSE d

\* lines 370-389
CorrectTotal(d) ==
    IF d.subtotal # None
    THEN LET calculated_total ==
                 Round2(Val(d.subtotal)
                        - (IF d.discount_amount # None THEN Val(d.discount_amount) ELSE 0)
                        + (IF d.tax # None THEN Val(d.tax) ELSE 0))
         IN  IF d.total_amount # None
             THEN IF Abs(calculated_total - Val(d.total_amount)) > 500
                  THEN [d EXCEPT !.total_amount = Some(calculated_total)]
                  ELSE d
             ELSE [d EXCEPT !.total_amount = Some(calculated_total)]
    ELSE d

\* the subtotal is summed from the amounts as extracted, before the line-item step
ApplyMathCorrectionsSubtotalFirst(d) ==
    CorrectTotal(CorrectTax(CorrectDiscount(CorrectLineItems(CorrectSubtotal(d)))))

\* the grand total is settled before the subtotal, discount and tax it is built from
ApplyMathCorrectionsTotalFirst(d) ==
    CorrectTax(CorrectDiscount(CorrectSubtotal(CorrectTotal(CorrectLineItems(d)))))

\* lines 301-392: the five steps in the order the code runs them
ApplyMathCorrections(d) ==
    CorrectTotal(CorrectTax(CorrectDiscount(CorrectSubtotal(CorrectLineItems(d)))))

----------------------------------------------------------------------------
(* Number formatting used in the validator's messages *)

TwoDigits(n) == IF n < 10 THEN "0" \o ToString(n) ELSE ToString(n)

\* a count of hundredths written with two decimals: 600 is "6.00"
FmtCents(c) ==
    (IF c < 0 THEN "-" ELSE "")
    \o ToString(Abs(c) \div 100) \o "." \o TwoDigits(Abs(c) % 100)

\* f"{x:.2f}" of a value in thousandths
Fmt2(x) == FmtCents(RoundHalfEven(x, 10))

\* f"{x}" of a float in thousandths: the shortest decimal, at least one digit
FmtFloat(x) ==
    LET f == Abs(x) % 1000
        frac == IF f % 100 = 0 THEN ToString(f \div 100)
                ELSE IF f % 10 = 0 THEN TwoDigits(f \div 10)
                ELSE (IF f < 100 THEN "0" ELSE "") \o TwoDigits(f)
    IN  (IF x < 0 THEN "-" ELSE "") \o ToString(Abs(x) \div 1000) \o "." \o frac

----------------------------------------------------------------------------
(* validator.py: InvoiceValidator *)

\* line 34, in thousandths
AMOUNT_TOLERANCE == 10

\* line 36, in thousandths
SUBTOTAL_TOLERANCE == 1000

\* schemas.ValidationError; the message is its fixed wording and the values
\* it embeds, each formatted as the code formats it
ValidationError(field, text, args, severity) ==
    [field |-> field, message |-> [text |-> text, args |-> args],
     severity |-> severity]

\* strings s for which s.strip() is empty
BlankStrings == {"", " ", "  "}

IsBlank(o) == o = None \/ Val(o) \in BlankStrings

\* the required-field check testing for None only, without the strip()
CheckRequiredFieldsNoStrip(data) ==
    (IF data.vendor_name = None
     THEN <<[field |-> "vendor_name",
             message |-> [text |-> "Vendor name is missing but required for processing",
                          args |-> <<>>],
             severity |-> "error"]>>
     ELSE <<>>)
    \o
    (IF data.invoice_number = None
     THEN <<[field |-> "invoice_number",
             message |-> [text |-> "Invoice number is missing but required for processing",
                          args |-> <<>>],
             severity |-> "error"]>>
     ELSE <<>>)

\* lines 79-101
CheckRequiredFields(data) ==
    (IF IsBlank(data.vendor_name)
     THEN <<ValidationError("vendor_name",
                "Vendor name is missing but required for processing",
                <<>>, "error")>>
     ELSE <<>>)
    \o
    (IF IsBlank(data.invoice_number)
     THEN <<ValidationError("invoice_number",
                "Invoice number is missing but required for processing",
                <<>>, "error")>>
     ELSE <<>>)

\* the amount-integrity check of subtotal and total only, tax left unexamined
CheckAmountIntegrityNoTax(data) ==
    (IF data.subtotal = None
     THEN <<[field |-> "subtotal",
             message |-> [text |-> "Subtotal is missing - required for accounting verification",
                          args |-> <<>>],
             severity |-> "error"]>>
     ELSE <<>>)
    \o
    (IF data.total_amount = None
     THEN <<[field |-> "total_amount",
             message |-> [text |-> "Total amount is missing - required for payment processing",
                          args |-> <<>>],
             severity |-> "error"]>>
     ELSE <<>>)
    \o
    (IF data.subtotal # None /\ Val(data.subtotal) < 0
     THEN <<[field |-> "subtotal",
             message |-> [text |-> "Subtotal is negative - likely extraction error",
                          args |-> <<Fmt2(Val(data.subtotal))>>],
             severity |-> "error"]>>
     ELSE <<>>)
    \o
    (IF data.total_amount # None /\ Val(data.total_amount) < 0
     THEN <<[field |-> "total_amount",
             message |-> [text |-> "Total amount is negative - likely extraction error",
                          args |-> <<Fmt2(Val(data.total_amount))>>],
             severity |-> "error"]>>
     ELSE <<>>)

\* lines 103-150
CheckAmountIntegrity(data) ==
    (IF data.subtotal = None
     THEN <<ValidationError("subtotal",
                "Subtotal is missing - required for accounting verification",
                <<>>, "error")>>
     ELSE <<>>)
    \o
    (IF data.total_amount = None
     THEN <<ValidationError("total_amount",
                "Total amount is missing - required for payment processing",
                <<>>, "error")>>
     ELSE <<>>)
    \o
    (IF data.subtotal # None /\ Val(data.subtotal) < 0
     THEN <<ValidationError("subtotal",
                "Subtotal is negative - likely extraction error",
                <<Fmt2(Val(data.subtotal))>>, "error")>>
     ELSE <<>>)
    \o
    (IF data.total_amount # None /\ Val(data.total_amount) < 0
     THEN <<ValidationError("total_amount",
                "Total amount is negative - likely extraction error",
                <<Fmt2(Val(data.total_amount))>>, "error")>>
     ELSE <<>>)
    \o
    (IF data.tax # None /\ Val(data.tax) < 0
     THEN <<ValidationError("tax",
                "Tax is negative - likely extraction error",
                <<Fmt2(Val(data.tax))>>, "error")>>
     ELSE <<>>)

\* the duplicate check without the early return on an empty invoice number
CheckDuplicateInvoiceUnguarded(data, db_session) ==
    IF db_session.kind = "raises" THEN <<>>
    ELSE IF db_session.existing # None
    THEN <<[field |-> "invoice_number",
            message |-> [text |-> "Invoice number already exists",
                         args |-> <<(IF data.invoice_number # None
                                     THEN Val(data.invoice_number) ELSE "None"),
                                    ToString(Val(db_session.existing))>>],
            severity |-> "error"]>>
    ELSE <<>>

\* lines 152-182.  db_session.kind is "ok" when the query answers and
\* "raises" when it throws; db_session.existing is what .first() returns
CheckDuplicateInvoice(data, db_session) ==
    IF ~Truthy(data.invoice_number) THEN <<>>
    ELSE IF db_session.kind = "raises" THEN <<>>
    ELSE IF db_session.existing # None
    THEN <<ValidationError("invoice_number",
               "Invoice number already exists",
               <<Val(data.invoice_number), ToString(Val(db_session.existing))>>,
               "error")>>
    ELSE <<>>

\* the grand-total check of the earlier variant: subtotal + tax, discount ignored
CheckMathematicalConsistencyNoDiscount(data) ==
    IF data.subtotal = None \/ data.total_amount = None THEN <<>>
    ELSE LET tax == IF data.tax # None THEN Val(data.tax) ELSE 0
             calculated_total == Val(data.subtotal) + tax
             difference == Abs(calculated_total - Val(data.total_amount))
         IN  IF difference > AMOUNT_TOLERANCE
             THEN <<[field |-> "total_amount",
                     message |->
                        [text |-> "Math error: Subtotal - Discount + Tax differs from Grand Total",
                         args |-> <<Fmt2(Val(data.subtotal)), Fmt2(0), Fmt2(tax),
                                    Fmt2(calculated_total),
                                    Fmt2(Val(data.total_amount)), Fmt2(difference)>>],
                     severity |-> "error"]>>
             ELSE <<>>

\* lines 184-215
CheckMathematicalConsistency(data) ==
    IF data.subtotal = None \/ data.total_amount = None THEN <<>>
    ELSE LET discount == IF data.discount_amount # None
                         THEN Val(data.discount_amount) ELSE 0
             tax == IF data.tax # None THEN Val(data.tax) ELSE 0
             calculated_total == Val(data.subtotal) - discount + tax
             difference == Abs(calculated_total - Val(data.total_amount))
         IN  IF difference > AMOUNT_TOLERANCE
             THEN <<ValidationError("total_amount",
                        "Math error: Subtotal - Discount + Tax differs from Grand Total",
                        <<Fmt2(Val(data.subtotal)), Fmt2(discount), Fmt2(tax),
                          Fmt2(calculated_total), Fmt2(Val(data.total_amount)),
                          Fmt2(difference)>>,
                        "error")>>
             ELSE <<>>

\* the finding's field counts the items from one
CheckOneLineItemOneBased(item, idx) ==
    IF item.quantity # None /\ item.unit_price # None /\ item.amount # None
    THEN LET expected == Val(item.quantity) * Val(item.unit_price)
             difference == Abs(expected - 1000 * Val(item.amount))
         IN  IF difference > 1000 * AMOUNT_TOLERANCE
             THEN <<ValidationError(
                        "line_items[" \o ToString(idx + 1) \o "]",
                        "Qty x Price differs from Amount",
                        <<(IF Truthy(item.product_name)
                           THEN Val(item.product_name)
                           ELSE "Item #" \o ToString(idx + 1)),
                          FmtFloat(Val(item.quantity)),
                          Fmt2(Val(item.unit_price)),
                          FmtCents(RoundHalfEven(expected, 10000)),
                          Fmt2(Val(item.amount))>>,
                        "error")>>
             ELSE <<>>
    ELSE <<>>

\* lines 224-237, one line item at zero-based position idx
CheckOneLineItem(item, idx) ==
    IF item.quantity # None /\ item.unit_price # None /\ item.amount # None
    THEN LET expected == Val(item.quantity) * Val(item.unit_price)
             difference == Abs(expected - 1000 * Val(item.amount))
         IN  IF difference > 1000 * AMOUNT_TOLERANCE
             THEN <<ValidationError(
                        "line_items[" \o ToString(idx) \o "]",
                        "Qty x Price differs from Amount",
                        <<(IF Truthy(item.product_name)
                           THEN Val(item.product_name)
                           ELSE "Item #" \o ToString(idx + 1)),
                          FmtFloat(Val(item.quantity)),
                          Fmt2(Val(item.unit_price)),
                          FmtCents(RoundHalfEven(expected, 10000)),
                          Fmt2(Val(item.amount))>>,
                        "error")>>
             ELSE <<>>
    ELSE <<>>

RECURSIVE LineItemErrorsFrom(_, _)
LineItemErrorsFrom(items, idx) ==
    IF idx >= Len(items) THEN <<>>
    ELSE CheckOneLineItem(items[idx + 1], idx) \o LineItemErrorsFrom(items, idx + 1)

\* lines 217-239
CheckLineItemMath(data) == LineItemErrorsFrom(data.line_items, 0)

\* lines 241-269
CheckSubtotalConsistency(data) ==
    IF data.line_items = <<>> \/ data.subtotal = None THEN <<>>
    ELSE IF \A i \in 1..Len(data.line_items) : data.line_items[i].amount = None
    THEN <<>>
    ELSE LET items_sum == SumAmounts(data.line_items)
             difference == Abs(items_sum - Val(data.subtotal))
         IN  IF difference > SUBTOTAL_TOLERANCE
             THEN <<ValidationError("subtotal",
                        "Sum of line items doesn't match subtotal",
                        <<Fmt2(items_sum), Fmt2(Val(data.subtotal)),
                          Fmt2(difference)>>,
                        "warning")>>
             ELSE <<>>

\* lines 271-293; the product subtotal * discount_percentage / 100 is kept
\* exact in units of 10^-8, where a thousandth is 10^5
CheckDiscountConsistency(data) ==
    IF data.discount_percentage # None /\ data.discount_amount # None
       /\ data.subtotal # None
    THEN LET expected_discount == Val(data.subtotal) * Val(data.discount_percentage)
             difference == Abs(expected_discount - 100000 * Val(data.discount_amount))
         IN  IF difference > 100000 * AMOUNT_TOLERANCE
             THEN <<ValidationError("discount_amount",
                        "Discount percentage of subtotal differs from discount amount",
                        <<FmtFloat(Val(data.discount_percentage)),
                          Fmt2(Val(data.subtotal)),
                          FmtCents(RoundHalfEven(expected_discount, 1000000)),
                          Fmt2(Val(data.discount_amount))>>,
                        "warning")>>
             ELSE <<>>
    ELSE <<>>

\* the data-quality check with the large-amount limit taken inclusively
CheckDataQualityInclusive(data) ==
    (IF data.tax = None
     THEN <<ValidationError("tax",
                "Tax amount is missing - may affect tax reporting and reconciliation",
                <<>>, "warning")>>
     ELSE <<>>)
    \o
    (IF IsBlank(data.invoice_date)
     THEN <<ValidationError("invoice_date",
                "Invoice date is missing - may affect accounting period assignment",
                <<>>, "warning")>>
     ELSE <<>>)
    \o
    (IF IsBlank(data.currency)
     THEN <<ValidationError("currency",
                "Currency not detected - assuming default currency",
                <<>>, "warning")>>
     ELSE <<>>)
    \o
    (IF data.total_amount # None /\ Val(data.total_amount) >= 1000000000
     THEN <<ValidationError("total_amount",
                "Unusually large amount - verify accuracy",
                <<Fmt2(Val(data.total_amount))>>, "warning")>>
     ELSE <<>>)
    \o
    (IF data.line_items = <<>>
     THEN <<ValidationError("line_items",
                "No line items extracted - product details may be missing from the invoice",
                <<>>, "warning")>>
     ELSE <<>>)

\* lines 295-342; 1_000_000 is 10^9 thousandths
CheckDataQuality(data) ==
    (IF data.tax = None
     THEN <<ValidationError("tax",
                "Tax amount is missing - may affect tax reporting and reconciliation",
                <<>>, "warning")>>
     ELSE <<>>)
    \o
    (IF IsBlank(data.invoice_date)
     THEN <<ValidationError("invoice_date",
                "Invoice date is missing - may affect accounting period assignment",
                <<>>, "warning")>>
     ELSE <<>>)
    \o
    (IF IsBlank(data.currency)
     THEN <<ValidationError("currency",
                "Currency not detected - assuming default currency",
                <<>>, "warning")>>
     ELSE <<>>)
    \o
    (IF data.total_amount # None /\ Val(data.total_amount) > 1000000000
     THEN <<ValidationError("total_amount",
                "Unusually large amount - verify accuracy",
                <<Fmt2(Val(data.total_amount))>>, "warning")>>
     ELSE <<>>)
    \o
    (IF data.line_items = <<>>
     THEN <<ValidationError("line_items",
                "No line items extracted - product details may be missing from the invoice",
                <<>>, "warning")>>
     ELSE <<>>)

\* the db_session argument: absent (None), or a session whose duplicate query
\* answers with the row .first() returns (None when no row matches) or raises
NoSession == [kind |-> "none", existing |-> None]

SessionAnswering(existing) == [kind |-> "ok", existing |-> existing]

SessionRaising == [kind |-> "raises", existing |-> None]

\* the errors with a raising lookup reported as a finding instead of swallowed
ValidateErrorsEscalating(invoice_data, db_session) ==
    CheckRequiredFields(invoice_data)
    \o CheckAmountIntegrity(invoice_data)
    \o CheckMathematicalConsistency(invoice_data)
    \o CheckLineItemMath(invoice_data)
    \o (IF db_session.kind = "raises"
        THEN <<[field |-> "invoice_number",
                message |-> [text |-> "Duplicate check failed", args |-> <<>>],
                severity |-> "error"]>>
        ELSE IF db_session.kind # "none"
        THEN CheckDuplicateInvoice(invoice_data, db_session)
        ELSE <<>>)

\* the error checks run as a chain that stops at the first check with findings
ValidateErrorsShortCircuit(invoice_data, db_session) ==
    IF CheckRequiredFields(invoice_data) # <<>>
    THEN CheckRequiredFields(invoice_data)
    ELSE IF CheckAmountIntegrity(invoice_data) # <<>>
    THEN CheckAmountIntegrity(invoice_data)
    ELSE IF CheckMathematicalConsistency(invoice_data) # <<>>
    THEN CheckMathematicalConsistency(invoice_data)
    ELSE IF CheckLineItemMath(invoice_data) # <<>>
    THEN CheckLineItemMath(invoice_data)
    ELSE IF db_session.kind # "none"
    THEN CheckDuplicateInvoice(invoice_data, db_session)
    ELSE <<>>

\* lines 50-65
ValidateErrors(invoice_data, db_session) ==
    CheckRequiredFields(invoice_data)
    \o CheckAmountIntegrity(invoice_data)
    \o CheckMathematicalConsistency(invoice_data)
    \o CheckLineItemMath(invoice_data)
    \o (IF db_session.kind # "none"
        THEN CheckDuplicateInvoice(invoice_data, db_session)
        ELSE <<>>)

\* lines 60-67
ValidateWarnings(invoice_data) ==
    CheckSubtotalConsistency(invoice_data)
    \o CheckDiscountConsistency(invoice_data)
    \o CheckDataQuality(invoice_data)

\* schemas.ValidationResult
ValidationResult(is_valid, errors, warnings) ==
    [is_valid |-> is_valid, errors |-> errors, warnings |-> warnings]

\* validate with is_valid demanding that there be no warnings either
ValidateCountingWarnings(invoice_data, db_session) ==
    LET errors == ValidateErrors(invoice_data, db_session)
        warnings == ValidateWarnings(invoice_data)
    IN  ValidationResult(Len(errors) = 0 /\ Len(warnings) = 0, errors, warnings)

\* lines 38-77
Validate(invoice_data, db_session) ==
    LET errors == ValidateErrors(invoice_data, db_session)
        warnings == ValidateWarnings(invoice_data)
    IN  ValidationResult(Len(errors) = 0, errors, warnings)

----------------------------------------------------------------------------
(* extraction.py: the model output, its text and the JSON it carries *)

\* A JSON value: null, a string, an int or float (n in thousandths), or an
\* array of line-item objects.
JNull == [type |-> "null", s |-> "", n |-> 0, items |-> <<>>]

JStr(s) == [type |-> "string", s |-> s, n |-> 0, items |-> <<>>]

JInt(i) == [type |-> "int", s |-> "", n |-> 1000 * i, items |-> <<>>]

JFloat(n) == [type |-> "float", s |-> "", n |-> n, items |-> <<>>]

JArr(items) == [type |-> "array", s |-> "", n |-> 0, items |-> items]

\* one object of the line_items array; a key the object lacks reads as null
JItem(product_name, quantity, unit_price, amount) ==
    [product_name |-> product_name, quantity |-> quantity,
     unit_price |-> unit_price, amount |-> amount]

\* The text of a model output is a sequence of tokens: a "field" is one
\* "key": value pair, the others are the marks the cleaning and repair code
\* looks for: ```json and ``` fences, prose around the object, braces, commas,
\* newlines, a non-printable character, the debris "n  in front of a key, and
\* a bare JSON scalar.  Braces inside a field's value are not seen as tokens.
Tok(kind) == [kind |-> kind, key |-> "", value |-> JNull]

Field(key, value) == [kind |-> "field", key |-> key, value |-> value]

\* str.strip(): leading and trailing newlines removed
RECURSIVE LStrip(_)
LStrip(text) ==
    IF text # <<>> /\ Head(text).kind = "nl" THEN LStrip(Tail(text)) ELSE text

RECURSIVE RStrip(_)
RStrip(text) ==
    IF text # <<>> /\ text[Len(text)].kind = "nl"
    THEN RStrip(SubSeq(text, 1, Len(text) - 1)) ELSE text

Strip(text) == RStrip(LStrip(text))

\* str.find / str.rfind of a brace: its first / last position, 0 if none
FindFirst(text, kind) ==
    IF \E i \in 1..Len(text) : text[i].kind = kind
    THEN CHOOSE i \in 1..Len(text) :
            /\ text[i].kind = kind
            /\ \A j \in 1..(i - 1) : text[j].kind # kind
    ELSE 0

FindLast(text, kind) ==
    IF \E i \in 1..Len(text) : text[i].kind = kind
    THEN CHOOSE i \in 1..Len(text) :
            /\ text[i].kind = kind
            /\ \A j \in (i + 1)..Len(text) : text[j].kind # kind
    ELSE 0

\* lines 243-274
CleanJsonOutput(output) ==
    LET stripped == Strip(output)
        opened == IF stripped # <<>>
                     /\ Head(stripped).kind \in {"fence_json", "fence"}
                  THEN Tail(stripped) ELSE stripped
        closed == IF opened # <<>> /\ opened[Len(opened)].kind = "fence"
                  THEN SubSeq(opened, 1, Len(opened) - 1) ELSE opened
        bare == Strip(closed)
        from_brace == IF bare # <<>> /\ Head(bare).kind # "lbrace"
                         /\ FindFirst(bare, "lbrace") # 0
                      THEN SubSeq(bare, FindFirst(bare, "lbrace"), Len(bare))
                      ELSE bare
    IN  IF from_brace # <<>> /\ from_brace[Len(from_brace)].kind # "rbrace"
           /\ FindLast(from_brace, "rbrace") # 0
        THEN SubSeq(from_brace, 1, FindLast(from_brace, "rbrace"))
        ELSE from_brace

\* position of the first token at or after i that is not a newline
RECURSIVE NextSolid(_, _)
NextSolid(text, i) ==
    IF i > Len(text) \/ text[i].kind # "nl" THEN i ELSE NextSolid(text, i + 1)

\* line 284: non-printable characters removed
DropNonPrintable(text) == SelectSeq(text, LAMBDA t : t.kind # "ctrl")

\* line 288: {, blanks and the debris "n  become {
RECURSIVE FixCorruptedNames(_, _)
FixCorruptedNames(text, i) ==
    IF i > Len(text) THEN <<>>
    ELSE LET j == NextSolid(text, i + 1)
         IN  IF text[i].kind = "lbrace" /\ j <= Len(text)
                /\ text[j].kind = "corrupt"
             THEN <<text[i]>> \o FixCorruptedNames(text, j + 1)
             ELSE <<text[i]>> \o FixCorruptedNames(text, i + 1)

\* line 291: } blanks { becomes },{
RECURSIVE FixMissingObjectCommas(_, _)
FixMissingObjectCommas(text, i) ==
    IF i > Len(text) THEN <<>>
    ELSE LET j == NextSolid(text, i + 1)
         IN  IF text[i].kind = "rbrace" /\ j <= Len(text)
                /\ text[j].kind = "lbrace"
             THEN <<text[i], Tok("comma"), text[j]>>
                  \o FixMissingObjectCommas(text, j + 1)
             ELSE <<text[i]>> \o FixMissingObjectCommas(text, i + 1)

\* line 294: a closing quote, blanks holding a newline, an opening quote
\* become ",\n" : a comma is put after a string-valued field that is followed
\* by newlines and then the next key
RECURSIVE FixMissingFieldCommas(_, _)
FixMissingFieldCommas(text, i) ==
    IF i > Len(text) THEN <<>>
    ELSE LET j == NextSolid(text, i + 1)
         IN  IF text[i].kind = "field" /\ text[i].value.type = "string"
                /\ j > i + 1 /\ j <= Len(text) /\ text[j].kind = "field"
             THEN <<text[i], Tok("comma"), Tok("nl")>>
                  \o FixMissingFieldCommas(text, j)
             ELSE <<text[i]>> \o FixMissingFieldCommas(text, i + 1)

\* line 297: a comma before blanks and a closing brace is removed
RECURSIVE DropTrailingCommas(_, _)
DropTrailingCommas(text, i) ==
    IF i > Len(text) THEN <<>>
    ELSE LET j == NextSolid(text, i + 1)
         IN  IF text[i].kind = "comma" /\ j <= Len(text)
                /\ text[j].kind = "rbrace"
             THEN DropTrailingCommas(text, i + 1)
             ELSE <<text[i]>> \o DropTrailingCommas(text, i + 1)

\* lines 276-299
AttemptJsonRepair(json_str) ==
    LET printable == DropNonPrintable(json_str)
        named == FixCorruptedNames(printable, 1)
        objects == FixMissingObjectCommas(named, 1)
        fields == FixMissingFieldCommas(objects, 1)
    IN  DropTrailingCommas(fields, 1)

\* the dict a sequence of fields denotes; a repeated key keeps its last value
Doc(fields) ==
    [k \in {fields[i].key : i \in 1..Len(fields)} |->
        fields[CHOOSE i \in 1..Len(fields) :
                  /\ fields[i].key = k
                  /\ \A j \in (i + 1)..Len(fields) : fields[j].key # k].value]

NoJson == [kind |-> "none", doc |-> <<>>]

\* json.loads of a text: an object when the text, newlines aside, is
\* { field , field ... }, another JSON value when it is one scalar, and a
\* JSONDecodeError ("fail") otherwise
ParseJson(text) ==
    LET s == SelectSeq(text, LAMBDA t : t.kind # "nl")
        inner == SubSeq(s, 2, Len(s) - 1)
    IN  IF /\ Len(s) >= 2
           /\ s[1].kind = "lbrace"
           /\ s[Len(s)].kind = "rbrace"
           /\ \/ inner = <<>>
              \/ /\ Len(inner) % 2 = 1
                 /\ \A i \in 1..Len(inner) :
                       inner[i].kind = IF i % 2 = 1 THEN "field" ELSE "comma"
        THEN [kind |-> "object",
              doc |-> Doc(SelectSeq(inner, LAMBDA t : t.kind = "field"))]
        ELSE IF Len(s) = 1 /\ s[1].kind = "scalar"
        THEN [kind |-> "other", doc |-> <<>>]
        ELSE [kind |-> "fail", doc |-> <<>>]

\* dict.get(key)
Get(data, key) == IF key \in DOMAIN data THEN data[key] ELSE JNull

\* line 406-410: float() of a string with commas, currency signs and outer
\* blanks removed, for the strings the drawn outputs carry
FloatOfString(s) ==
    IF s = "1,234.56" THEN Some(1234560)
    ELSE IF s = "$30.00" THEN Some(30000)
    ELSE None

\* lines 399-417; dict values are not among the drawn outputs
SafeFloat(value) ==
    IF value.type = "null" THEN None
    ELSE IF value.type \in {"int", "float"} THEN Some(value.n)
    ELSE IF value.type = "string" THEN FloatOfString(value.s)
    ELSE None

\* a text field handed to the schema as it is: null or the string itself
TextField(value) == IF value.type = "null" THEN None ELSE Some(value.s)

\* str(value) of line 432
Str(value) ==
    IF value.type = "string" THEN value.s
    ELSE IF value.type = "int" THEN ToString(value.n \div 1000)
    ELSE FmtFloat(value.n)

\* lines 423-428
ConvertLineItem(item) ==
    LineItem(TextField(item.product_name), SafeFloat(item.quantity),
             SafeFloat(item.unit_price), SafeFloat(item.amount))

\* lines 394-445
ConvertToInvoiceData(data) ==
    [vendor_name |-> TextField(Get(data, "vendor_name")),
     invoice_number |-> IF Get(data, "invoice_number").type # "null"
                        THEN Some(Str(Get(data, "invoice_number"))) ELSE None,
     invoice_date |-> TextField(Get(data, "invoice_date")),
     line_items |-> LET items == Get(data, "line_items").items
                    IN  [i \in 1..Len(items) |-> ConvertLineItem(items[i])],
     subtotal |-> SafeFloat(Get(data, "subtotal")),
     discount_percentage |-> SafeFloat(Get(data, "discount_percentage")),
     discount_amount |-> SafeFloat(Get(data, "discount_amount")),
     cgst_rate |-> SafeFloat(Get(data, "cgst_rate")),
     cgst_amount |-> SafeFloat(Get(data, "cgst_amount")),
     sgst_rate |-> SafeFloat(Get(data, "sgst_rate")),
     sgst_amount |-> SafeFloat(Get(data, "sgst_amount")),
     tax |-> SafeFloat(Get(data, "tax")),
     total_amount |-> SafeFloat(Get(data, "total_amount")),
     currency |-> TextField(Get(data, "currency"))]

\* what self.model.run returned: results.error set ("error"), or an output
\* that is a dict with a string content ("content_str"), a dict with a parsed
\* content ("content_parsed"), a dict without content ("dict"), a string
\* ("str"), or something else ("other")
ModelOutput(kind, text, json) == [kind |-> kind, text |-> text, json |-> json]

NoOutput == ModelOutput("none", <<>>, NoJson)

\* the progress of one extract_invoice_data call
NoExtraction ==
    [output |-> NoOutput, model_calls |-> 0, repairs |-> 0,
     first_parse |-> "", second_parse |-> "", text |-> <<>>,
     json |-> NoJson, returned |-> None]

----------------------------------------------------------------------------
(* Inputs of the corrector *)

\* most line items a drawn record carries
MaxItems == 2

\* 3 and 1.6
QuantityInputs == {None, Some(3000), Some(1600)}

\* 10.00 and 0.31
UnitPriceInputs == {None, Some(10000), Some(310)}

\* 25.00, 30.01 (one cent off 3 x 10.00) and 0.509 (0.009 off round(1.6 x 0.31, 2))
AmountInputs == {None, Some(25000), Some(30010), Some(509)}

LineItemInputs ==
    {LineItem(Some("Widget"), q, p, a) :
        q \in QuantityInputs, p \in UnitPriceInputs, a \in AmountInputs}

LineItemLists == UNION {[1..k -> LineItemInputs] : k \in 0..MaxItems}

\* records that vary the line items, with the subtotal absent or present
ItemStudy ==
    {[EmptyInvoiceData EXCEPT !.line_items = items, !.subtotal = st] :
        items \in LineItemLists, st \in {None, Some(30000)}}

HeaderStudyItems ==
    {<<>>,
     <<LineItem(Some("Widget"), Some(3000), Some(10000), Some(30000))>>,
     <<LineItem(None, None, Some(10000), None)>>}

\* records that vary the amounts of the header around one fixed line item:
\* subtotal 30.00 / 30.40 / 100.00, discount 10 %, 3.00 / 3.30 / 10.00,
\* CGST 0 / 4.50, SGST 4.50, tax 9.00 / 9.30, total 36.00 / 36.30 / 99.00 / 105.00
HeaderStudy ==
    {[EmptyInvoiceData EXCEPT
        !.line_items = items, !.subtotal = st, !.discount_percentage = dp,
        !.discount_amount = da, !.cgst_amount = cg, !.sgst_amount = sg,
        !.tax = tx, !.total_amount = tt] :
        items \in HeaderStudyItems,
        st \in {None, Some(30000), Some(30400), Some(100000)},
        dp \in {None, Some(10000)},
        da \in {None, Some(3000), Some(3300), Some(10000)},
        cg \in {None, Some(0), Some(4500)},
        sg \in {None, Some(4500)},
        tx \in {None, Some(9000), Some(9300)},
        tt \in {None, Some(36000), Some(36300), Some(99000), Some(105000)}}

CorrectorInputs == ItemStudy \cup HeaderStudy

----------------------------------------------------------------------------
(* The corrector and the validator applied to drawn records *)

NoResult == ValidationResult(FALSE, <<>>, <<>>)

NoResponse == [status_code |-> 0, error_type |-> "", body |-> None]

\* no upload request is running beside the one the handlers serve
NoUploads == <<>>

NoRequest ==
    [op |-> "none", invoice_id |-> 0, file |-> "", llm |-> "", query |-> "",
     commit |-> "", read_status |-> "", format |-> "", status |-> None]

InitCorrector ==
    /\ pc = "converted"
    /\ raw \in CorrectorInputs
    /\ extracted_data = raw
    /\ session = NoSession
    /\ validation_result = NoResult
    /\ invoices = <<>>
    /\ request = NoRequest
    /\ response = NoResponse
    /\ extraction = NoExtraction
    /\ uploads = NoUploads

\* extraction.py line 149
Correct ==
    /\ pc = "converted"
    /\ extracted_data' = ApplyMathCorrections(raw)
    /\ pc' = "corrected"
    /\ UNCHANGED <<raw, session, validation_result, invoices, request,
                   response, extraction, uploads>>

\* the corrector run on its own output
CorrectAgain ==
    /\ pc = "corrected"
    /\ extracted_data' = ApplyMathCorrections(extracted_data)
    /\ pc' = "recorrected"
    /\ UNCHANGED <<raw, session, validation_result, invoices, request,
                   response, extraction, uploads>>

\* the validator run on a corrected record, without a session
ValidateCorrected ==
    /\ pc = "corrected"
    /\ validation_result' = Validate(extracted_data, NoSession)
    /\ pc' = "validated"
    /\ UNCHANGED <<raw, extracted_data, session, invoices, request,
                   response, extraction, uploads>>

\* the validator run on the record as converted, the corrector skipped
ValidateUncorrected ==
    /\ pc = "converted"
    /\ validation_result' = Validate(raw, NoSession)
    /\ pc' = "validated_uncorrected"
    /\ UNCHANGED <<raw, extracted_data, session, invoices, request,
                   response, extraction, uploads>>

NextCorrector == Correct \/ CorrectAgain \/ ValidateCorrected \/ ValidateUncorrected

SpecCorrector == InitCorrector /\ [][NextCorrector]_vars

----------------------------------------------------------------------------
(* Inputs of the extractor *)

\* the fields of the drawn model outputs: all text; text and numbers, some
\* written as strings; text left empty; and nulls
TextDoc ==
    <<Field("vendor_name", JStr("Acme")), Field("invoice_number", JStr("INV-1")),
      Field("currency", JStr("USD"))>>

NumberDoc ==
    <<Field("vendor_name", JStr("Acme")), Field("invoice_number", JInt(1042)),
      Field("line_items",
            JArr(<<JItem(JStr("Widget"), JInt(3), JFloat(10000), JNull)>>)),
      Field("subtotal", JStr("$30.00")), Field("tax", JStr("n/a")),
      Field("total_amount", JFloat(30000))>>

BlankDoc ==
    <<Field("vendor_name", JStr("")), Field("invoice_number", JStr("")),
      Field("invoice_date", JStr("")),
      Field("line_items",
            JArr(<<JItem(JStr(""), JInt(3), JFloat(10000), JFloat(30000))>>)),
      Field("currency", JStr(""))>>

NullDoc ==
    <<Field("vendor_name", JNull), Field("invoice_number", JNull),
      Field("line_items", JArr(<<>>)), Field("vendor_name", JStr("Acme"))>>

Docs == {TextDoc, NumberDoc, BlankDoc, NullDoc}

\* the fields with the separator written between each two of them
RECURSIVE Joined(_, _)
Joined(fields, sep) ==
    IF Len(fields) <= 1 THEN fields
    ELSE <<Head(fields)>> \o sep \o Joined(Tail(fields), sep)

\* what stands between two fields: a comma, a comma and a newline, a newline
\* only, nothing
Separators == {<<Tok("comma")>>, <<Tok("comma"), Tok("nl")>>, <<Tok("nl")>>, <<>>}

\* what stands before the closing brace: nothing, a newline, a trailing comma
Tails == {<<>>, <<Tok("nl")>>, <<Tok("comma"), Tok("nl")>>}

\* the object as the model wrote it: clean, fenced, inside prose, with debris
\* or a control character after the opening brace, or cut off before the
\* closing brace
Wrapped(body) ==
    {<<Tok("lbrace")>> \o body \o <<Tok("rbrace")>>,
     <<Tok("fence_json"), Tok("nl"), Tok("lbrace")>> \o body
        \o <<Tok("rbrace"), Tok("nl"), Tok("fence"), Tok("nl")>>,
     <<Tok("prose"), Tok("nl"), Tok("lbrace")>> \o body
        \o <<Tok("rbrace"), Tok("nl"), Tok("prose")>>,
     <<Tok("lbrace"), Tok("nl"), Tok("corrupt")>> \o body \o <<Tok("rbrace")>>,
     <<Tok("lbrace"), Tok("ctrl")>> \o body \o <<Tok("rbrace")>>,
     <<Tok("lbrace")>> \o body}

ModelTexts ==
    UNION {Wrapped(Joined(fields, sep) \o tail) :
              fields \in Docs, sep \in Separators, tail \in Tails}
    \cup {<<>>, <<Tok("scalar")>>, <<Tok("prose")>>}

ModelOutputs ==
    {ModelOutput(kind, text, NoJson) :
        kind \in {"content_str", "str"}, text \in ModelTexts}
    \cup {ModelOutput(kind, <<>>, [kind |-> "object", doc |-> Doc(fields)]) :
             kind \in {"content_parsed", "dict"}, fields \in Docs}
    \cup {ModelOutput("content_parsed", <<>>, [kind |-> "other", doc |-> <<>>]),
          ModelOutput("run_raises", <<>>, NoJson),
          ModelOutput("error", <<>>, NoJson),
          ModelOutput("other", <<>>, NoJson)}

----------------------------------------------------------------------------
(* extraction.py: extract_invoice_data, one step per stage *)

InitExtractor ==
    /\ pc = "start"
    /\ raw = EmptyInvoiceData
    /\ extracted_data = EmptyInvoiceData
    /\ session = NoSession
    /\ validation_result = NoResult
    /\ invoices = <<>>
    /\ request = NoRequest
    /\ response = NoResponse
    /\ extraction \in {[NoExtraction EXCEPT !.output = output] :
                          output \in ModelOutputs}
    /\ uploads = NoUploads

\* lines 62-75: the one call of the model; a call that throws or reports an
\* error ends the extraction
CallModel ==
    /\ pc = "start"
    /\ extraction' = [extraction EXCEPT !.model_calls = @ + 1]
    /\ pc' = IF extraction.output.kind \in {"run_raises", "error"}
             THEN "raised" ELSE "called"
    /\ UNCHANGED <<raw, extracted_data, session, validation_result, invoices,
                   request, response, uploads>>

\* lines 83-91, 108-122 and 139-143: the output is told apart by its type;
\* text is stripped and cleaned, a dict is taken as the JSON
ReadOutput ==
    /\ pc = "called"
    /\ LET output == extraction.output
       IN  IF output.kind \in {"content_str", "str"}
           THEN /\ extraction' = [extraction EXCEPT
                                     !.text = CleanJsonOutput(Strip(output.text))]
                /\ pc' = "cleaned"
           ELSE IF output.kind \in {"content_parsed", "dict"}
           THEN /\ extraction' = [extraction EXCEPT !.json = output.json]
                /\ pc' = "parsed"
           ELSE /\ extraction' = extraction
                /\ pc' = "raised"
    /\ UNCHANGED <<raw, extracted_data, session, validation_result, invoices,
                   request, response, uploads>>

\* lines 93-97 and 125-129: the first json.loads
FirstParse ==
    /\ pc = "cleaned"
    /\ LET parsed == ParseJson(extraction.text)
       IN  IF parsed.kind = "fail"
           THEN /\ extraction' = [extraction EXCEPT !.first_parse = "failed"]
                /\ pc' = "parse_failed"
           ELSE /\ extraction' = [extraction EXCEPT !.first_parse = "ok",
                                                    !.json = parsed]
                /\ pc' = "parsed"
    /\ UNCHANGED <<raw, extracted_data, session, validation_result, invoices,
                   request, response, uploads>>

\* lines 98 and 130: the repair pass
Repair ==
    /\ pc = "parse_failed"
    /\ extraction' = [extraction EXCEPT
                         !.repairs = @ + 1,
                         !.text = AttemptJsonRepair(extraction.text)]
    /\ pc' = "repaired"
    /\ UNCHANGED <<raw, extracted_data, session, validation_result, invoices,
                   request, response, uploads>>

\* a second parse whose failure is answered with an empty document
SecondParseOutcomeEmptyRecord(parsed) ==
    IF parsed.kind = "fail"
    THEN [pc |-> "parsed", json |-> [kind |-> "object", doc |-> <<>>]]
    ELSE [pc |-> "parsed", json |-> parsed]

\* lines 100-106 and 132-138: what follows the second json.loads
SecondParseOutcome(parsed) ==
    IF parsed.kind = "fail"
    THEN [pc |-> "raised", json |-> NoJson]
    ELSE [pc |-> "parsed", json |-> parsed]

\* lines 100-106 and 132-138: the second json.loads, on the repaired text
SecondParse ==
    /\ pc = "repaired"
    /\ LET parsed == ParseJson(extraction.text)
           outcome == SecondParseOutcome(parsed)
       IN  /\ extraction' = [extraction EXCEPT
                                !.second_parse = IF parsed.kind = "fail"
                                                 THEN "failed" ELSE "ok",
                                !.json = outcome.json]
           /\ pc' = outcome.pc
    /\ UNCHANGED <<raw, extracted_data, session, validation_result, invoices,
                   request, response, uploads>>

\* lines 145-156: conversion and correction; JSON that is not an object has
\* no .get and the call raises
ConvertAndCorrect ==
    /\ pc = "parsed"
    /\ IF extraction.json.kind = "object"
       THEN LET invoice_data == ConvertToInvoiceData(extraction.json.doc)
                corrected == ApplyMathCorrections(invoice_data)
            IN  /\ raw' = invoice_data
                /\ extracted_data' = corrected
                /\ extraction' = [extraction EXCEPT !.returned = Some(corrected)]
                /\ pc' = "returned"
       ELSE /\ pc' = "raised"
            /\ UNCHANGED <<raw, extracted_data, extraction, uploads>>
    /\ UNCHANGED <<session, validation_result, invoices, request, response, uploads>>

NextExtractor ==
    \/ CallModel
    \/ ReadOutput
    \/ FirstParse
    \/ Repair
    \/ SecondParse
    \/ ConvertAndCorrect

SpecExtractor == InitExtractor /\ [][NextExtractor]_vars

----------------------------------------------------------------------------
(* Inputs of the validator *)

\* the records of scenarios A and B: subtotal 100.00, discount 10.00, tax 9.00
\* and total 99.00 (A) or 105.00 (B)
ScenarioRecord(total) ==
    [EmptyInvoiceData EXCEPT
        !.vendor_name = Some("Acme"), !.invoice_number = Some("INV-1"),
        !.invoice_date = Some("2024-01-15"), !.currency = Some("USD"),
        !.line_items = <<LineItem(Some("Widget"), Some(10000), Some(10000),
                                  Some(100000))>>,
        !.subtotal = Some(100000), !.discount_amount = Some(10000),
        !.tax = Some(9000), !.total_amount = Some(total)]

\* records that vary the text fields of scenario A
TextStudy ==
    {[ScenarioRecord(99000) EXCEPT
        !.vendor_name = vn, !.invoice_number = nr,
        !.invoice_date = dt, !.currency = cu] :
        vn \in {None, Some(""), Some("  "), Some("Acme")},
        nr \in {None, Some(""), Some(" "), Some("INV-1")},
        dt \in {None, Some("2024-01-15")},
        cu \in {None, Some("USD")}}

AmountStudyItems ==
    {<<>>,
     <<LineItem(Some("Widget"), Some(3000), Some(10000), Some(25000))>>,
     <<LineItem(Some("Widget"), Some(10000), Some(10000), Some(100000)),
       LineItem(None, Some(1600), Some(310), Some(509))>>,
     <<LineItem(Some(""), Some(3000), Some(10000), Some(25000)),
       LineItem(Some("Gadget"), Some(2000), None, Some(5000))>>}

\* records that vary the amounts of scenario A: subtotal 0 / -5.00,
\* tax 0 / -1.00, total 0 / 99.01 / 105.00 / -99.00, with and without discount
AmountStudy ==
    {[ScenarioRecord(99000) EXCEPT
        !.line_items = items, !.subtotal = st, !.discount_percentage = dp,
        !.discount_amount = da, !.tax = tx, !.total_amount = tt] :
        items \in AmountStudyItems,
        st \in {None, Some(100000), Some(0), Some(-5000)},
        dp \in {None, Some(10000)},
        da \in {None, Some(10000)},
        tx \in {None, Some(9000), Some(0), Some(-1000)},
        tt \in {None, Some(99000), Some(99010), Some(105000), Some(0),
                Some(-99000)}}

\* scenario F: every field present and consistent, total 2,000,000.00 made of
\* subtotal 1,990,000.00 and tax 10,000.00, one line item carrying the subtotal
ScenarioF ==
    [ScenarioRecord(2000000000) EXCEPT
        !.line_items = <<LineItem(Some("Turbine"), None, None, Some(1990000000))>>,
        !.subtotal = Some(1990000000), !.discount_amount = None,
        !.tax = Some(10000000)]

\* records that vary scenario F around the 1,000,000 limit: subtotal
\* 990,000 / 1,990,000, tax absent or 10,000, total 999,999.99 / 1,000,000 /
\* 1,000,000.01 / 2,000,000, with and without the line item
LargeStudy ==
    {[ScenarioF EXCEPT
        !.line_items = items, !.subtotal = st, !.tax = tx, !.total_amount = tt] :
        items \in {<<>>, ScenarioF.line_items},
        st \in {Some(990000000), Some(1990000000)},
        tx \in {None, Some(10000000)},
        tt \in {None, Some(999999990), Some(1000000000), Some(1000000010),
                Some(2000000000)}}

ValidatorInputs == TextStudy \cup AmountStudy \cup LargeStudy

\* no session, a query that finds nothing, one that finds row 42, one that raises
SessionInputs ==
    {NoSession, SessionAnswering(None), SessionAnswering(Some(42)), SessionRaising}

InitValidator ==
    /\ pc = "extracted"
    /\ extracted_data \in ValidatorInputs
    /\ raw = extracted_data
    /\ session \in SessionInputs
    /\ validation_result = NoResult
    /\ invoices = <<>>
    /\ request = NoRequest
    /\ response = NoResponse
    /\ extraction = NoExtraction
    /\ uploads = NoUploads

\* validator.validate(extracted_data, db_session=session)
RunValidate ==
    /\ pc = "extracted"
    /\ validation_result' = Validate(extracted_data, session)
    /\ pc' = "validated"
    /\ UNCHANGED <<raw, extracted_data, session, invoices, request,
                   response, extraction, uploads>>

NextValidator == RunValidate

SpecValidator == InitValidator /\ [][NextValidator]_vars

----------------------------------------------------------------------------
(* routes.py: upload_invoice, approve_invoice and get_invoice over the      *)
(* invoices table                                                          *)

\* most rows the invoices table holds
MaxInvoices == 2

\* json.dumps: the text of a JSON document, kept as the document it encodes
JsonDumps(v) == [json |-> v]

ErrorResponse(status_code, error_type) ==
    [status_code |-> status_code, error_type |-> error_type, body |-> None]

OkResponse(body) == [status_code |-> 200, error_type |-> "", body |-> Some(body)]

\* what the upload sees of the file and of text acquisition (lines 103-153)
FileOutcomes ==
    {"invalid_file_type", "empty_file", "ocr_not_available", "ocr_failed",
     "insufficient_text", "text"}

\* how extract_invoice_data ends (extraction.py lines 72-152)
LlmOutcomes == {"llm_error", "invalid_json", "unexpected_type", "record"}

DbOutcomes == {"ok", "raises"}

CleanRecord(number) ==
    [EmptyInvoiceData EXCEPT
        !.vendor_name = Some("Acme"), !.invoice_number = Some(number),
        !.invoice_date = Some("2024-01-15"), !.currency = Some("USD"),
        !.line_items = <<LineItem(Some("Widget"), Some(3000), Some(10000),
                                  Some(25000))>>,
        !.tax = Some(9000)]

\* model outputs an upload can carry: one that validates without findings,
\* one with warnings only, one with a wrong total, one with no vendor, an
\* empty invoice number and no currency
UploadInputs ==
    {CleanRecord("INV-1"),
     [CleanRecord("INV-2") EXCEPT !.invoice_date = None, !.currency = None],
     [CleanRecord("INV-1") EXCEPT !.subtotal = Some(30000),
                                  !.total_amount = Some(39300)],
     [CleanRecord("") EXCEPT !.vendor_name = None, !.currency = None]}

\* the rows .first() may return for a number: any row that carries it
FirstOutcomes(number) ==
    LET matches == {i \in 1..Len(invoices) : invoices[i].invoice_number = number}
    IN  IF matches = {} THEN {None} ELSE {Some(invoices[i].id) : i \in matches}

\* a status that sends a record with warnings to review as well
InvoiceStatusFromWarnings(result) ==
    IF Len(result.errors) + Len(result.warnings) > 0
    THEN "REVIEW_REQUIRED" ELSE "PENDING"

\* a status that also approves what validated without any finding
InvoiceStatusAutoApprove(result) ==
    IF Len(result.errors) > 0 THEN "REVIEW_REQUIRED"
    ELSE IF Len(result.warnings) = 0 THEN "APPROVED" ELSE "PENDING"

\* lines 178-180
InvoiceStatus(result) ==
    IF Len(result.errors) > 0 THEN "REVIEW_REQUIRED" ELSE "PENDING"

\* lines 186-191
ProcessingNotes(result) ==
    IF ~result.is_valid
    THEN Some("Found " \o ToString(Len(result.errors)) \o " validation errors")
    ELSE IF result.warnings # <<>>
    THEN Some("Extracted successfully with " \o ToString(Len(result.warnings))
              \o " warnings")
    ELSE None

\* lines 196-241: the Invoice row built from the record and its validation
InvoiceRow(id, data, result) ==
    [id |-> id,
     vendor_name |-> data.vendor_name,
     invoice_number |-> data.invoice_number,
     invoice_date |-> data.invoice_date,
     line_items |-> IF data.line_items # <<>>
                    THEN Some(JsonDumps(data.line_items)) ELSE None,
     subtotal |-> data.subtotal,
     discount_percentage |-> data.discount_percentage,
     discount_amount |-> data.discount_amount,
     cgst_rate |-> data.cgst_rate,
     cgst_amount |-> data.cgst_amount,
     sgst_rate |-> data.sgst_rate,
     sgst_amount |-> data.sgst_amount,
     tax |-> data.tax,
     total_amount |-> data.total_amount,
     currency |-> data.currency,
     is_valid |-> result.is_valid,
     validation_errors |-> IF result.errors \o result.warnings # <<>>
                           THEN Some(JsonDumps(result.errors \o result.warnings))
                           ELSE None,
     status |-> InvoiceStatus(result)]

\* lines 256-263
InvoiceResponse(data, result) ==
    [success |-> result.is_valid,
     processing_success |-> TRUE,
     invoice_valid |-> result.is_valid,
     extracted_data |-> Some(data),
     validation |-> result,
     processing_notes |-> ProcessingNotes(result)]

Init ==
    /\ pc = "start"
    /\ raw = EmptyInvoiceData
    /\ extracted_data = EmptyInvoiceData
    /\ session = NoSession
    /\ validation_result = NoResult
    /\ invoices = <<>>
    /\ request = NoRequest
    /\ response = NoResponse
    /\ extraction = NoExtraction
    /\ uploads = NoUploads

\* an upload whose extraction failed still stores an empty record
UploadEndsEarlyStoringEmpty(file, llm) ==
    /\ pc' = "upload_failed"
    /\ response' =
          IF file = "invalid_file_type" THEN ErrorResponse(400, "INVALID_FILE_TYPE")
          ELSE IF file = "empty_file" THEN ErrorResponse(400, "EMPTY_FILE")
          ELSE IF file = "ocr_not_available" THEN ErrorResponse(400, "OCR_NOT_AVAILABLE")
          ELSE ErrorResponse(500, "PROCESSING_ERROR")
    /\ request' = [NoRequest EXCEPT !.op = "upload", !.file = file, !.llm = llm]
    /\ invoices' =
          IF llm # ""
          THEN Append(invoices,
                      InvoiceRow(Len(invoices) + 1, EmptyInvoiceData,
                                 Validate(EmptyInvoiceData, NoSession)))
          ELSE invoices
    /\ UNCHANGED <<raw, extracted_data, session, validation_result, extraction, uploads>>

\* an upload that ends before a record is extracted: lines 103-165 and the
\* handlers at 265-292.  With insufficient text the handler calls
\* validate(None), which raises on data.subtotal, and the outer handler
\* turns that into PROCESSING_ERROR.
UploadEndsEarly(file, llm) ==
    /\ pc' = "upload_failed"
    /\ response' =
          IF file = "invalid_file_type" THEN ErrorResponse(400, "INVALID_FILE_TYPE")
          ELSE IF file = "empty_file" THEN ErrorResponse(400, "EMPTY_FILE")
          ELSE IF file = "ocr_not_available" THEN ErrorResponse(400, "OCR_NOT_AVAILABLE")
          ELSE ErrorResponse(500, "PROCESSING_ERROR")
    /\ request' = [NoRequest EXCEPT !.op = "upload", !.file = file, !.llm = llm]
    /\ UNCHANGED <<raw, extracted_data, session, validation_result, invoices,
                   extraction, uploads>>

\* an upload whose save failed ends in the error response
UploadProcessesFailingOnSave(output, query, commit) ==
    LET data == ApplyMathCorrections(output)
    IN  \E existing \in FirstOutcomes(data.invoice_number) :
           LET db == IF query = "raises" THEN SessionRaising
                     ELSE SessionAnswering(existing)
               result == Validate(data, db)
           IN  /\ raw' = output
               /\ extracted_data' = data
               /\ session' = db
               /\ validation_result' = result
               /\ invoices' =
                     IF commit = "ok"
                     THEN Append(invoices,
                                 InvoiceRow(Len(invoices) + 1, data, result))
                     ELSE invoices
               /\ pc' = IF commit = "ok" THEN "uploaded" ELSE "upload_unsaved"
               /\ request' = [NoRequest EXCEPT
                                 !.op = "upload", !.file = "text",
                                 !.llm = "record", !.query = query,
                                 !.commit = commit]
               /\ response' = IF commit = "ok"
                              THEN OkResponse(InvoiceResponse(data, result))
                              ELSE ErrorResponse(500, "PROCESSING_ERROR")
               /\ UNCHANGED <<extraction, uploads>>

\* an upload that extracts, corrects, validates and saves: lines 167-263
UploadProcesses(output, query, commit) ==
    LET data == ApplyMathCorrections(output)
    IN  \E existing \in FirstOutcomes(data.invoice_number) :
           LET db == IF query = "raises" THEN SessionRaising
                     ELSE SessionAnswering(existing)
               result == Validate(data, db)
           IN  /\ raw' = output
               /\ extracted_data' = data
               /\ session' = db
               /\ validation_result' = result
               /\ invoices' =
                     IF commit = "ok"
                     THEN Append(invoices,
                                 InvoiceRow(Len(invoices) + 1, data, result))
                     ELSE invoices
               /\ pc' = IF commit = "ok" THEN "uploaded" ELSE "upload_unsaved"
               /\ request' = [NoRequest EXCEPT
                                 !.op = "upload", !.file = "text",
                                 !.llm = "record", !.query = query,
                                 !.commit = commit]
               /\ response' = OkResponse(InvoiceResponse(data, result))
               /\ UNCHANGED <<extraction, uploads>>

\* POST /upload-invoice, lines 76-292
UploadInvoice ==
    /\ Len(invoices) < MaxInvoices
    /\ \/ \E file \in FileOutcomes \ {"text"} : UploadEndsEarly(file, "")
       \/ \E llm \in LlmOutcomes \ {"record"} : UploadEndsEarly("text", llm)
       \/ \E output \in UploadInputs, query \in DbOutcomes, commit \in DbOutcomes :
             UploadProcesses(output, query, commit)

\* a guard that looks for a status no row ever has
ApprovalBlockedMisspelt(invoice) == invoice.status = "REVIEW"

\* line 696
ApprovalBlocked(invoice) == invoice.status = "REVIEW_REQUIRED"

\* an approval that also drops the findings stored with the row
ApprovedRowClearingFindings(invoice) ==
    [invoice EXCEPT !.status = "APPROVED", !.validation_errors = None]

\* line 713
ApprovedRow(invoice) == [invoice EXCEPT !.status = "APPROVED"]

\* POST /invoices/{invoice_id}/approve, lines 657-739
ApproveInvoice ==
    \E invoice_id \in 1..(Len(invoices) + 1), query \in DbOutcomes,
       commit \in DbOutcomes :
       LET found == query = "ok" /\ invoice_id <= Len(invoices)
           blocked == found /\ ApprovalBlocked(invoices[invoice_id])
           approved == found /\ ~blocked /\ commit = "ok"
       IN  /\ pc' = "approve"
           /\ request' = [NoRequest EXCEPT
                             !.op = "approve", !.invoice_id = invoice_id,
                             !.query = query,
                             !.commit = IF found /\ ~blocked THEN commit ELSE "",
                             !.read_status = IF found
                                             THEN invoices[invoice_id].status
                                             ELSE ""]
           /\ invoices' =
                 IF approved
                 THEN [invoices EXCEPT ![invoice_id] = ApprovedRow(@)]
                 ELSE invoices
           /\ response' =
                 IF query = "raises" THEN ErrorResponse(500, "APPROVAL_ERROR")
                 ELSE IF ~found THEN ErrorResponse(404, "NOT_FOUND")
                 ELSE IF blocked THEN ErrorResponse(400, "VALIDATION_ERRORS_PRESENT")
                 ELSE IF commit = "raises" THEN ErrorResponse(500, "APPROVAL_ERROR")
                 ELSE OkResponse([id |-> invoices[invoice_id].id,
                                  status |-> "APPROVED",
                                  message |-> "Invoice approved successfully"])
           /\ UNCHANGED <<raw, extracted_data, session, validation_result,
                          extraction, uploads>>

\* json.loads of a text written by json.dumps
JsonLoads(text) == text.json

\* lines 562 and 564: f"{field}: {message}", kept as the two parts it joins
FormatIssue(issue) == [field |-> issue.field, message |-> issue.message]

\* a reading that puts every stored issue in the list, whatever its severity
ReadFindingsUnpartitioned(invoice, severity) ==
    IF invoice.validation_errors = None THEN <<>>
    ELSE LET all_issues == JsonLoads(Val(invoice.validation_errors))
         IN  [k \in 1..Len(all_issues) |-> FormatIssue(all_issues[k])]

\* lines 553-566: the issues of the stored blob that carry the given
\* severity, in stored order
ReadFindings(invoice, severity) ==
    IF invoice.validation_errors = None THEN <<>>
    ELSE LET all_issues == JsonLoads(Val(invoice.validation_errors))
             chosen == SelectSeq(all_issues,
                                 LAMBDA issue : issue.severity = severity)
         IN  [k \in 1..Len(chosen) |-> FormatIssue(chosen[k])]

\* lines 568-599; created_at is not modelled
InvoiceDetail(invoice) ==
    [id |-> invoice.id,
     vendor_name |-> invoice.vendor_name,
     invoice_number |-> invoice.invoice_number,
     invoice_date |-> invoice.invoice_date,
     line_items |-> IF invoice.line_items = None THEN <<>>
                    ELSE JsonLoads(Val(invoice.line_items)),
     subtotal |-> invoice.subtotal,
     discount_percentage |-> invoice.discount_percentage,
     discount_amount |-> invoice.discount_amount,
     cgst_rate |-> invoice.cgst_rate,
     cgst_amount |-> invoice.cgst_amount,
     sgst_rate |-> invoice.sgst_rate,
     sgst_amount |-> invoice.sgst_amount,
     tax |-> invoice.tax,
     total_amount |-> invoice.total_amount,
     currency |-> invoice.currency,
     is_valid |-> invoice.is_valid,
     status |-> invoice.status,
     validation_errors |-> ReadFindings(invoice, "error"),
     validation_warnings |-> ReadFindings(invoice, "warning")]

\* GET /invoices/{invoice_id}, lines 523-613
GetInvoice ==
    \E invoice_id \in 1..(Len(invoices) + 1), query \in DbOutcomes :
       LET found == query = "ok" /\ invoice_id <= Len(invoices)
       IN  /\ pc' = "get"
           /\ request' = [NoRequest EXCEPT
                             !.op = "get", !.invoice_id = invoice_id,
                             !.query = query,
                             !.read_status = IF found
                                             THEN invoices[invoice_id].status
                                             ELSE ""]
           /\ response' =
                 IF query = "raises" THEN ErrorResponse(500, "DATABASE_ERROR")
                 ELSE IF ~found THEN ErrorResponse(404, "NOT_FOUND")
                 ELSE OkResponse(InvoiceDetail(invoices[invoice_id]))
           /\ UNCHANGED <<raw, extracted_data, session, validation_result,
                          invoices, extraction, uploads>>

\* the status filters an export request is drawn with: none, empty, a valid
\* one in lower case, a valid one in upper case, one that names no status
StatusFilters ==
    {None, Some(""), Some("pending"), Some("REVIEW_REQUIRED"), Some("Done")}

\* str.upper() on the filters above
Upper(s) ==
    CASE s = "pending" -> "PENDING"
      [] s = "Done" -> "DONE"
      [] OTHER -> s

\* routes.py line 450
valid_statuses == {"PENDING", "REVIEW_REQUIRED", "APPROVED"}

\* services/export.py lines 182-196: every row, newest first, kept when no
\* filter is given or its status equals the upper-cased filter
RECURSIVE FetchInvoicesForExport(_, _)
FetchInvoicesForExport(rows, status_filter) ==
    IF rows = <<>> THEN <<>>
    ELSE LET older == FetchInvoicesForExport(Tail(rows), status_filter)
         IN  IF ~Truthy(status_filter)
                \/ Head(rows).status = Upper(Val(status_filter))
             THEN Append(older, Head(rows))
             ELSE older

\* routes.py lines 470-488: the download, its content abstracted to the ids
\* of the exported rows in file order
ExportFile(format, rows) ==
    [media_type |-> IF format = "xlsx"
                    THEN "application/vnd.openxmlformats-officedocument.spreadsheetml.sheet"
                    ELSE "text/csv",
     rows |-> [i \in 1..Len(rows) |-> rows[i].id]]

\* GET /invoices/export, routes.py lines 416-503.  Inside the handler the
\* name `status` is the query parameter (line 422), which hides the status
\* module imported at line 11.  A non-empty filter outside valid_statuses
\* reaches line 453, where status.HTTP_400_BAD_REQUEST is looked up on the
\* string and raises AttributeError before any HTTPException exists; the
\* handler at 493 catches it and raises AttributeError again at line 496
\* (on None when no filter was given), so the error leaves the route and
\* main.py's catch-all handler (lines 106-120) answers 500 INTERNAL_ERROR.
\* A failing fetch ends the same way.
ExportInvoices ==
    \E format \in {"csv", "xlsx"}, status \in StatusFilters, query \in DbOutcomes :
       LET refused == Truthy(status) /\ Upper(Val(status)) \notin valid_statuses
       IN  /\ pc' = "export"
           /\ request' = [NoRequest EXCEPT
                             !.op = "export", !.format = format,
                             !.status = status,
                             !.query = IF refused THEN "" ELSE query]
           /\ response' =
                 IF refused \/ query = "raises"
                 THEN ErrorResponse(500, "INTERNAL_ERROR")
                 ELSE OkResponse(ExportFile(format,
                                            FetchInvoicesForExport(invoices, status)))
           /\ UNCHANGED <<raw, extracted_data, session, validation_result,
                          invoices, extraction, uploads>>

Next == UploadInvoice \/ ApproveInvoice \/ GetInvoice

Spec == Init /\ [][Next]_vars

\* the service with its export route; the export reads the table and writes
\* nothing, so the claims about the stored rows are checked under Spec
NextExport == UploadInvoice \/ ApproveInvoice \/ GetInvoice \/ ExportInvoices

SpecExport == Init /\ [][NextExport]_vars

----------------------------------------------------------------------------
(* Claims about the corrector *)

\* C1: the corrector is idempotent: running it on a record it has already
\* corrected changes no field, correct(correct(r)) = correct(r).
C1_CorrectorIdempotent ==
    pc = "recorrected" => extracted_data = ApplyMathCorrections(raw)

\* a record whose line items, subtotal and total the first run rewrote
C1_Witness ==
    /\ pc = "recorrected"
    /\ extracted_data.line_items # raw.line_items
    /\ extracted_data.subtotal # raw.subtotal
    /\ extracted_data.total_amount # raw.total_amount

\* what the claim says the corrector leaves in the amount of one line item
ClaimedAmount(item) ==
    IF item.quantity # None /\ item.unit_price # None
    THEN LET computed == Round2Product(Val(item.quantity) * Val(item.unit_price))
         IN  IF item.amount = None THEN Some(computed)
             ELSE IF Abs(Val(item.amount) - computed) > 10 THEN Some(computed)
             ELSE item.amount
    ELSE item.amount

C4_CorrectedItemsPassMathCheck ==
    /\ pc = "corrected" =>
          \A i \in 1..Len(extracted_data.line_items) :
             LET item == extracted_data.line_items[i]
             IN  item.quantity # None /\ item.unit_price # None =>
                    /\ item.amount # None
                    /\ Abs(Val(item.quantity) * Val(item.unit_price)
                           - 1000 * Val(item.amount)) <= 10000
    /\ pc = "validated" =>
          \A k \in 1..Len(validation_result.errors) :
             validation_result.errors[k].message.text
                # "Qty x Price differs from Amount"

----------------------------------------------------------------------------
(* Claims about the validator *)

\* positions of the errors of a result whose message has the given wording
ErrorsWithText(result, text) ==
    {k \in 1..Len(result.errors) : result.errors[k].message.text = text}

\* C2: the result of validate has is_valid = true exactly when its errors
\* are empty, whatever its warnings.
C2_IsValidIffNoErrors ==
    pc = "validated" =>
        (validation_result.is_valid <=> Len(validation_result.errors) = 0)

\* a valid result that carries warnings
C2_Witness ==
    /\ pc = "validated"
    /\ validation_result.is_valid
    /\ Len(validation_result.warnings) >= 2

\* what the grand-total claim expects of a record: 1 error when subtotal and
\* total are present and disagree by more than 0.01, else 0
ClaimedMathErrors(d) ==
    IF d.subtotal # None /\ d.total_amount # None
       /\ Abs(Val(d.subtotal)
              - (IF d.discount_amount = None THEN 0 ELSE Val(d.discount_amount))
              + (IF d.tax = None THEN 0 ELSE Val(d.tax))
              - Val(d.total_amount)) > 10
    THEN 1 ELSE 0

IsScenario(d, total) ==
    /\ d.subtotal = Some(100000)
    /\ d.discount_amount = Some(10000)
    /\ d.tax = Some(9000)
    /\ d.total_amount = Some(total)

GrandTotalClaim(reported) ==
    pc = "validated" =>
        LET found == ErrorsWithText(validation_result,
                        "Math error: Subtotal - Discount + Tax differs from Grand Total")
        IN  /\ Cardinality(found) = ClaimedMathErrors(extracted_data)
            /\ \A k \in found : validation_result.errors[k].field = "total_amount"
            /\ IsScenario(extracted_data, 99000) => found = {}
            /\ IsScenario(extracted_data, 105000) =>
                  /\ Cardinality(found) = 1
                  /\ \A k \in found :
                        validation_result.errors[k].message.args[6] = reported

C9_DuplicateCheck ==
    pc = "validated" =>
        LET found == ErrorsWithText(validation_result, "Invoice number already exists")
            number == extracted_data.invoice_number
        IN  IF session.kind = "ok" /\ number # None /\ Val(number) # ""
               /\ session.existing # None
            THEN /\ Cardinality(found) = 1
                 /\ \A k \in found :
                       /\ validation_result.errors[k].field = "invoice_number"
                       /\ validation_result.errors[k].message.args[2]
                             = ToString(Val(session.existing))
                 /\ ~validation_result.is_valid
            ELSE session.kind # "raises" => found = {}

\* an otherwise clean record whose only error is the duplicate
C9_Witness ==
    /\ pc = "validated"
    /\ session = SessionAnswering(Some(42))
    /\ extracted_data.invoice_number = Some("INV-1")
    /\ Len(validation_result.errors) = 1
    /\ validation_result.errors[1].message.args = <<"INV-1", "42">>

\* C10: when the lookup raises, validate still returns a result, the duplicate
\* check adds no error, and all findings are those of a call with no lookup.
C10_LookupFailureSwallowed ==
    pc = "validated" /\ session.kind = "raises" =>
        /\ ErrorsWithText(validation_result, "Invoice number already exists") = {}
        /\ validation_result = Validate(extracted_data, NoSession)

\* a raising lookup on a record with an invoice number and errors of its own
C10_Witness ==
    /\ pc = "validated"
    /\ session.kind = "raises"
    /\ Truthy(extracted_data.invoice_number)
    /\ Len(validation_result.errors) >= 1
    /\ ~validation_result.is_valid

----------------------------------------------------------------------------
(* Claims about upload and approval *)

\* C6: the status an upload stores is REVIEW_REQUIRED exactly when the
\* validation result has at least one error and PENDING otherwise; it is
\* never APPROVED, even with no errors and no warnings.
C6_UploadStatus ==
    pc = "uploaded" =>
        LET stored == invoices[Len(invoices)]
        IN  /\ stored.status # "APPROVED"
            /\ stored.status = "REVIEW_REQUIRED"
                  <=> Len(validation_result.errors) >= 1
            /\ stored.status = "PENDING"
                  <=> Len(validation_result.errors) = 0

\* an upload stored as PENDING after validating with no finding at all
C6_Witness ==
    /\ pc = "uploaded"
    /\ validation_result.errors = <<>>
    /\ validation_result.warnings = <<>>
    /\ invoices[Len(invoices)].status = "PENDING"

\* the step is an approve request, answered by the database, for a stored row
ApproveStepOn(prior_statuses) ==
    /\ request'.op = "approve"
    /\ request'.query = "ok"
    /\ request'.invoice_id \in 1..Len(invoices)
    /\ invoices[request'.invoice_id].status \in prior_statuses

\* C7: an approve request on a REVIEW_REQUIRED invoice is rejected with
\* 400 VALIDATION_ERRORS_PRESENT and leaves the table as it was, and no step
\* takes a row out of REVIEW_REQUIRED.
C7_ApprovalBlocked ==
    [][/\ ApproveStepOn({"REVIEW_REQUIRED"}) =>
             /\ response'.status_code = 400
             /\ response'.error_type = "VALIDATION_ERRORS_PRESENT"
             /\ invoices' = invoices
       /\ \A i \in 1..Len(invoices) :
             invoices[i].status = "REVIEW_REQUIRED" =>
                invoices'[i].status = "REVIEW_REQUIRED"]_vars

\* a rejected approve request with its invoice still REVIEW_REQUIRED
C7_Witness ==
    /\ request.op = "approve"
    /\ request.read_status = "REVIEW_REQUIRED"
    /\ response.error_type = "VALIDATION_ERRORS_PRESENT"
    /\ invoices[request.invoice_id].status = "REVIEW_REQUIRED"

\* C8: approving a PENDING invoice sets its status to APPROVED; approving an
\* APPROVED invoice succeeds again and leaves the row exactly as it was; an
\* approve request changes no field other than status, and no other row.
C8_ApprovalIdempotent ==
    [][request'.op = "approve" =>
          /\ Len(invoices') = Len(invoices)
          /\ \A i \in 1..Len(invoices) :
                [invoices'[i] EXCEPT !.status = invoices[i].status] = invoices[i]
          /\ \A i \in 1..Len(invoices) :
                i # request'.invoice_id => invoices'[i] = invoices[i]
          /\ ApproveStepOn({"PENDING", "APPROVED"}) /\ request'.commit = "ok" =>
                /\ invoices'[request'.invoice_id].status = "APPROVED"
                /\ response'.status_code = 200
                /\ response'.body = Some([id |-> invoices[request'.invoice_id].id,
                                          status |-> "APPROVED",
                                          message |-> "Invoice approved successfully"])
          /\ ApproveStepOn({"APPROVED"}) => invoices' = invoices]_vars

\* an APPROVED invoice approved once more, with findings still stored on it
C8_Witness ==
    /\ request.op = "approve"
    /\ request.read_status = "APPROVED"
    /\ response.status_code = 200
    /\ invoices[request.invoice_id].status = "APPROVED"
    /\ invoices[request.invoice_id].validation_errors # None

----------------------------------------------------------------------------
(* Claims about what an upload returns *)

\* C12: when text acquisition yields no text or fewer than 10 characters,
\* upload_invoice returns a structured InvoiceResponse (success false,
\* processing_success true, invoice_valid false, extracted_data absent, a
\* validation result from the validator) and persists nothing; once text has
\* been acquired, only an extraction failure ends the upload with an error.
C12_InsufficientTextStructuredResult ==
    /\ request.op = "upload" /\ request.file = "insufficient_text" =>
          /\ response.status_code = 200
          /\ response.body # None
          /\ Val(response.body).success = FALSE
          /\ Val(response.body).processing_success = TRUE
          /\ Val(response.body).invoice_valid = FALSE
          /\ Val(response.body).extracted_data = None
    /\ request.op = "upload" /\ request.file \in {"insufficient_text", "text"}
       /\ response.status_code # 200 =>
          request.llm \in LlmOutcomes \ {"record"}

----------------------------------------------------------------------------
(* Claims about the single checks of the validator *)

\* a field the claims call missing or blank: absent, empty or whitespace only
ClaimedBlank(o) == o = None \/ Val(o) = "" \/ Val(o) = " " \/ Val(o) = "  "

\* positions of the required-field errors of a result on the given field
RequiredFieldErrors(result, field) ==
    {k \in 1..Len(result.errors) :
        /\ result.errors[k].field = field
        /\ result.errors[k].message.text \in
              {"Vendor name is missing but required for processing",
               "Invoice number is missing but required for processing"}}

\* C13: the required-field check yields one error per field for each of
\* vendor_name and invoice_number that is absent, empty or whitespace-only and
\* none for a field with non-blank text; vendor_name absent with
\* invoice_number "" gives exactly two required-field errors and is_valid false.
C13_RequiredFields ==
    pc = "validated" =>
        LET vendor == RequiredFieldErrors(validation_result, "vendor_name")
            number == RequiredFieldErrors(validation_result, "invoice_number")
        IN  /\ Cardinality(vendor)
                  = IF ClaimedBlank(extracted_data.vendor_name) THEN 1 ELSE 0
            /\ Cardinality(number)
                  = IF ClaimedBlank(extracted_data.invoice_number) THEN 1 ELSE 0
            /\ \A k \in vendor \cup number :
                  validation_result.errors[k].severity = "error"
            /\ extracted_data.vendor_name = None
               /\ extracted_data.invoice_number = Some("") =>
                  /\ Cardinality(vendor \cup number) = 2
                  /\ ~validation_result.is_valid

\* scenario C validated: vendor_name absent, invoice_number "", two errors
C13_Witness ==
    /\ pc = "validated"
    /\ extracted_data.vendor_name = None
    /\ extracted_data.invoice_number = Some("")
    /\ Len(validation_result.errors) = 2
    /\ validation_result.errors[1].field = "vendor_name"
    /\ validation_result.errors[2].field = "invoice_number"

\* 1 when the condition holds, else 0
Count(condition) == IF condition THEN 1 ELSE 0

\* C14: the amount-integrity check yields an error for each of: subtotal
\* absent, total_amount absent, subtotal negative, total_amount negative, tax
\* negative; nothing for zero or positive values and nothing for an absent
\* tax; so a record with a negative subtotal, total_amount or tax is invalid.
C14_AmountIntegrity ==
    pc = "validated" =>
        LET d == extracted_data
            r == validation_result
            Found(field, text) ==
                Cardinality({k \in ErrorsWithText(r, text) :
                                r.errors[k].field = field})
            negative(o) == o # None /\ Val(o) < 0
        IN  /\ Found("subtotal",
                     "Subtotal is missing - required for accounting verification")
                  = Count(d.subtotal = None)
            /\ Found("total_amount",
                     "Total amount is missing - required for payment processing")
                  = Count(d.total_amount = None)
            /\ Found("subtotal", "Subtotal is negative - likely extraction error")
                  = Count(negative(d.subtotal))
            /\ Found("total_amount",
                     "Total amount is negative - likely extraction error")
                  = Count(negative(d.total_amount))
            /\ Found("tax", "Tax is negative - likely extraction error")
                  = Count(negative(d.tax))
            /\ \A k \in 1..Len(r.errors) :
                  r.errors[k].field = "tax" => negative(d.tax)
            /\ negative(d.subtotal) \/ negative(d.total_amount) \/ negative(d.tax)
                  => ~r.is_valid

\* a record whose only error is its negative tax, subtotal and total being
\* present and consistent with it
C14_Witness ==
    /\ pc = "validated"
    /\ extracted_data.tax = Some(-1000)
    /\ Len(validation_result.errors) = 1
    /\ validation_result.errors[1].field = "tax"
    /\ ~validation_result.is_valid

\* positions of the warnings of a result whose message has the given wording
WarningsWithText(result, text) ==
    {k \in 1..Len(result.warnings) : result.warnings[k].message.text = text}

\* C15: the checks never short-circuit each other: the errors and warnings
\* returned by validate are exactly the findings each check (required-field,
\* amount-integrity, grand-total, line-item math, duplicate,
\* subtotal-aggregation, discount-consistency, data-quality) produces when
\* evaluated on its own.
C15_ChecksIndependent ==
    pc = "validated" =>
        /\ validation_result.errors =
              CheckRequiredFields(extracted_data)
              \o CheckAmountIntegrity(extracted_data)
              \o CheckMathematicalConsistency(extracted_data)
              \o CheckLineItemMath(extracted_data)
              \o (IF session = NoSession THEN <<>>
                  ELSE CheckDuplicateInvoice(extracted_data, session))
        /\ validation_result.warnings =
              CheckSubtotalConsistency(extracted_data)
              \o CheckDiscountConsistency(extracted_data)
              \o CheckDataQuality(extracted_data)

\* one record on which four error checks and three warning checks all report
C15_Witness ==
    /\ pc = "validated"
    /\ ErrorsWithText(validation_result,
           "Tax is negative - likely extraction error") # {}
    /\ ErrorsWithText(validation_result,
           "Math error: Subtotal - Discount + Tax differs from Grand Total") # {}
    /\ ErrorsWithText(validation_result, "Qty x Price differs from Amount") # {}
    /\ ErrorsWithText(validation_result, "Invoice number already exists") # {}
    /\ WarningsWithText(validation_result,
           "Sum of line items doesn't match subtotal") # {}
    /\ WarningsWithText(validation_result,
           "Discount percentage of subtotal differs from discount amount") # {}

----------------------------------------------------------------------------
(* Claims about what the corrector leaves in the header amounts *)

\* C16: the corrector never invents a value without arithmetic basis: when no
\* line item carries an amount after the line-item step (no line items, or
\* every line item lacks an amount and lacks quantity or unit_price), the
\* subtotal stays exactly as extracted, absent or present.
C16_SubtotalNotInvented ==
    pc = "corrected" =>
        ((\A i \in 1..Len(extracted_data.line_items) :
              extracted_data.line_items[i].amount = None)
         => extracted_data.subtotal = raw.subtotal)

\* C20: for every record whose subtotal is present after correction,
\* |subtotal - discount_amount (0 if absent) + tax (0 if absent)
\* - total_amount| <= 0.01, so the validator's grand-total check reports no
\* error on a record that has just been corrected.
C20_CorrectedRecordConsistent ==
    /\ pc = "corrected" /\ extracted_data.subtotal # None =>
          /\ extracted_data.total_amount # None
          /\ Abs(Val(extracted_data.subtotal)
                 - (IF extracted_data.discount_amount = None THEN 0
                    ELSE Val(extracted_data.discount_amount))
                 + (IF extracted_data.tax = None THEN 0
                    ELSE Val(extracted_data.tax))
                 - Val(extracted_data.total_amount)) <= 10
    /\ pc = "validated" =>
          ErrorsWithText(validation_result,
              "Math error: Subtotal - Discount + Tax differs from Grand Total") = {}

\* C17: a total_amount above 1,000,000 is flagged but not rejected: exactly
\* one warning on total_amount and no error for that reason, so the otherwise
\* valid record with total_amount 2,000,000 has zero errors, is_valid true and
\* exactly one warning; a total_amount of 1,000,000 or less gets no such warning.
C17_LargeTotalWarned ==
    pc = "validated" =>
        LET total == extracted_data.total_amount
            large == WarningsWithText(validation_result,
                         "Unusually large amount - verify accuracy")
        IN  /\ Cardinality(large)
                  = Count(total # None /\ Val(total) > 1000000000)
            /\ \A k \in large :
                  /\ validation_result.warnings[k].field = "total_amount"
                  /\ validation_result.warnings[k].severity = "warning"
            /\ ErrorsWithText(validation_result,
                   "Unusually large amount - verify accuracy") = {}
            /\ extracted_data = ScenarioF /\ session.existing = None =>
                  /\ validation_result.errors = <<>>
                  /\ validation_result.is_valid
                  /\ Len(validation_result.warnings) = 1
                  /\ large = {1}

\* scenario F validated: no error, valid, the one warning citing 2000000.00
C17_Witness ==
    /\ pc = "validated"
    /\ extracted_data = ScenarioF
    /\ validation_result.is_valid
    /\ Len(validation_result.warnings) = 1
    /\ validation_result.warnings[1].field = "total_amount"
    /\ validation_result.warnings[1].message.args = <<"2000000.00">>

----------------------------------------------------------------------------
(* Claims about stored findings *)

\* the findings of a list, each as its field and message
FieldsAndMessages(findings) ==
    [k \in 1..Len(findings) |->
        [field |-> findings[k].field, message |-> findings[k].message]]

\* C18: persisting and re-reading findings is a round trip: reading a stored
\* upload back, the error list and the warning list get_invoice rebuilds from
\* the stored blob are, in order, the errors and the warnings of the
\* ValidationResult computed at upload, each as its field and message; nothing
\* is lost, duplicated or moved, and no findings read back as two empty lists.
C18_FindingsRoundTrip ==
    [][/\ pc = "uploaded"
       /\ request'.op = "get"
       /\ request'.query = "ok"
       /\ request'.invoice_id = Len(invoices)
       => /\ response'.status_code = 200
          /\ response'.body # None
          /\ Val(response'.body).validation_errors
                = FieldsAndMessages(validation_result.errors)
          /\ Val(response'.body).validation_warnings
                = FieldsAndMessages(validation_result.warnings)]_vars

\* a stored upload with errors and warnings, read back with both lists filled
C18_Witness ==
    /\ pc = "get"
    /\ response.status_code = 200
    /\ request.invoice_id = Len(invoices)
    /\ Len(validation_result.errors) >= 2
    /\ Len(validation_result.warnings) >= 1
    /\ Val(response.body).validation_errors
          = FieldsAndMessages(validation_result.errors)
    /\ Val(response.body).validation_warnings
          = FieldsAndMessages(validation_result.warnings)

----------------------------------------------------------------------------
(* Claims about the extractor *)

\* C11: in one extract_invoice_data call on textual model output the repair
\* pass runs at most once and only after the first JSON parse has failed; if
\* the repaired text also fails to parse the call ends raising and returns no
\* record, empty or partial, and the model is never called a second time.
C11_OneRepairThenRaise ==
    /\ extraction.model_calls <= 1
    /\ extraction.repairs <= 1
    /\ extraction.repairs = 1 => extraction.first_parse = "failed"
    /\ extraction.first_parse = "ok" =>
          extraction.repairs = 0 /\ extraction.second_parse = ""
    /\ extraction.second_parse # "" => extraction.repairs = 1
    /\ extraction.second_parse = "failed" =>
          /\ pc = "raised"
          /\ extraction.returned = None
          /\ extraction.json = NoJson
          /\ extracted_data = EmptyInvoiceData
          /\ extraction.model_calls = 1
    /\ pc = "raised" => extraction.returned = None
    /\ pc = "returned" => extraction.second_parse # "failed"

\* a text the repair pass rewrote and that still does not parse: the call has
\* raised after one model call and one repair
C11_Witness ==
    /\ pc = "raised"
    /\ extraction.output.kind = "str"
    /\ extraction.first_parse = "failed"
    /\ extraction.second_parse = "failed"
    /\ extraction.repairs = 1
    /\ extraction.model_calls = 1
    /\ extraction.text # CleanJsonOutput(Strip(extraction.output.text))

\* the text fields of a record
TextFieldsOf(data) ==
    {data.vendor_name, data.invoice_number, data.invoice_date, data.currency}
    \cup {data.line_items[i].product_name : i \in 1..Len(data.line_items)}

\* C19: in every record the extractor returns, a text field (vendor_name,
\* invoice_number, invoice_date, currency, line item product_name) the model
\* output did not supply with real content is absent, never the empty string.
C19_NoEmptyStringFields ==
    pc = "returned" => Some("") \notin TextFieldsOf(Val(extraction.returned))

(***************************************************************************)
(* C21..C23: the subtotal, tax and total steps of the corrector            *)
(***************************************************************************)

\* some line item of the record carries an amount
SomeAmount(items) == \E i \in 1..Len(items) : items[i].amount # None

\* C21: when at least one line item carries an amount after the line-item
\* step, the corrected subtotal is the rounded sum of the corrected amounts
\* (items without an amount add nothing) exactly when the extracted subtotal
\* is absent or more than 0.5 away from that sum, and is the extracted
\* subtotal otherwise.
C21_SubtotalStep ==
    (pc = "corrected" /\ SomeAmount(extracted_data.line_items)) =>
        LET sum == Round2(SumAmounts(extracted_data.line_items))
        IN  extracted_data.subtotal =
                IF raw.subtotal = None \/ Abs(Val(raw.subtotal) - sum) > 500
                THEN Some(sum)
                ELSE raw.subtotal

\* an amount was rewritten by the line-item step, another item has no amount,
\* and the extracted subtotal was replaced by the sum of the corrected amounts
C21_Witness ==
    /\ pc = "corrected"
    /\ Len(raw.line_items) = 2
    /\ raw.line_items[1].amount # None
    /\ extracted_data.line_items[1].amount # raw.line_items[1].amount
    /\ extracted_data.line_items[2].amount = None
    /\ raw.subtotal # None
    /\ extracted_data.subtotal # raw.subtotal
    /\ extracted_data.subtotal = extracted_data.line_items[1].amount

\* the tax candidate of a record: the rounded sum of the GST components present
TaxCandidate(d) ==
    Round2((IF d.cgst_amount # None THEN Val(d.cgst_amount) ELSE 0)
           + (IF d.sgst_amount # None THEN Val(d.sgst_amount) ELSE 0))

\* C22: when cgst_amount or sgst_amount is present, an absent tax is set to
\* the candidate (a candidate of 0 included), a present tax is replaced by the
\* candidate only when it is more than 0.5 away from it and the candidate is
\* positive; when neither component is present, tax is unchanged.
C22_TaxStep ==
    pc = "corrected" =>
        IF raw.cgst_amount # None \/ raw.sgst_amount # None
        THEN extracted_data.tax =
                 IF raw.tax = None
                 THEN Some(TaxCandidate(raw))
                 ELSE IF Abs(Val(raw.tax) - TaxCandidate(raw)) > 500
                         /\ TaxCandidate(raw) > 0
                      THEN Some(TaxCandidate(raw))
                      ELSE raw.tax
        ELSE extracted_data.tax = raw.tax

\* the grand total a record's own subtotal, discount and tax give
TotalCandidate(d) ==
    Round2(Val(d.subtotal)
           - (IF d.discount_amount # None THEN Val(d.discount_amount) ELSE 0)
           + (IF d.tax # None THEN Val(d.tax) ELSE 0))

\* C23: when subtotal is present after the earlier steps, the corrected
\* total_amount is round(subtotal - discount_amount + tax, 2) of the values as
\* corrected in the same run (absent discount and tax counting 0) exactly
\* when the extracted total_amount is absent or more than 0.5 away from it,
\* and is the extracted total_amount otherwise; when subtotal is absent,
\* total_amount is unchanged.
C23_TotalStep ==
    pc = "corrected" =>
        IF extracted_data.subtotal # None
        THEN extracted_data.total_amount =
                 IF raw.total_amount = None
                    \/ Abs(Val(raw.total_amount) - TotalCandidate(extracted_data)) > 500
                 THEN Some(TotalCandidate(extracted_data))
                 ELSE raw.total_amount
        ELSE extracted_data.total_amount = raw.total_amount

\* subtotal, discount and tax were all rewritten by the run, the extracted
\* total agreed with the extracted values, and it was replaced by the total
\* of the corrected ones
C23_Witness ==
    /\ pc = "corrected"
    /\ raw.subtotal # None /\ raw.discount_amount # None
    /\ raw.tax # None /\ raw.total_amount # None
    /\ extracted_data.subtotal # raw.subtotal
    /\ extracted_data.discount_amount # raw.discount_amount
    /\ extracted_data.tax # raw.tax
    /\ raw.total_amount = Some(TotalCandidate(raw))
    /\ extracted_data.total_amount # raw.total_amount
    /\ extracted_data.total_amount = Some(TotalCandidate(extracted_data))

\* C30: after correction, a record with a subtotal has a total_amount, at
\* most 0.5 away from round(subtotal - discount_amount + tax, 2) (absent
\* discount and tax counting 0); hence the validator run on a corrected
\* record reports a missing total_amount only together with a missing
\* subtotal.
C30_TotalFollowsSubtotal ==
    /\ pc \in {"corrected", "validated"} =>
           (extracted_data.subtotal # None =>
                /\ extracted_data.total_amount # None
                /\ Abs(Val(extracted_data.total_amount)
                       - TotalCandidate(extracted_data)) <= 500)
    /\ pc = "validated" =>
           (ErrorsWithText(validation_result,
                "Total amount is missing - required for payment processing") # {}
            => ErrorsWithText(validation_result,
                "Subtotal is missing - required for accounting verification") # {})

\* a record extracted with a subtotal, a discount and a tax but no total has
\* been corrected and validated: the total was filled in and is not reported
C30_Witness ==
    /\ pc = "validated"
    /\ raw.subtotal # None /\ raw.total_amount = None
    /\ raw.discount_amount # None /\ raw.tax # None
    /\ extracted_data.total_amount = Some(TotalCandidate(extracted_data))
    /\ ErrorsWithText(validation_result,
           "Total amount is missing - required for payment processing") = {}

(***************************************************************************)
(* C24: the line-item math check                                           *)
(***************************************************************************)

\* the line item has quantity, unit_price and amount, and the amount is more
\* than 0.01 away from quantity x unit_price
ItemOffMath(item) ==
    /\ item.quantity # None /\ item.unit_price # None /\ item.amount # None
    /\ Abs(Val(item.quantity) * Val(item.unit_price) - 1000 * Val(item.amount))
           > 10000

RECURSIVE ItemsOffMath(_)
ItemsOffMath(items) ==
    IF items = <<>> THEN 0
    ELSE Count(ItemOffMath(Head(items))) + ItemsOffMath(Tail(items))

\* C24: the line-item math check yields exactly one error for each line item
\* that has quantity, unit_price and amount with |quantity x unit_price -
\* amount| > 0.01 and none for any other item; the error's field is
\* line_items[i], i the item's zero-based position, and the item is named by
\* its product_name or, when that is absent or empty, "Item #(i+1)".
C24_LineItemMathCheck ==
    pc = "validated" =>
        LET items == extracted_data.line_items
            r == validation_result
            At(i) == {k \in 1..Len(r.errors) :
                         r.errors[k].field = "line_items[" \o ToString(i - 1) \o "]"}
            Named(i) == IF items[i].product_name = None
                           \/ items[i].product_name = Some("")
                        THEN "Item #" \o ToString(i)
                        ELSE Val(items[i].product_name)
        IN  /\ \A i \in 1..Len(items) :
                  /\ Cardinality(At(i)) = Count(ItemOffMath(items[i]))
                  /\ \A k \in At(i) :
                        /\ r.errors[k].message.text = "Qty x Price differs from Amount"
                        /\ r.errors[k].message.args[1] = Named(i)
                        /\ r.errors[k].severity = "error"
            /\ Cardinality(ErrorsWithText(r, "Qty x Price differs from Amount"))
                  = ItemsOffMath(items)
            /\ \A k \in 1..Len(r.warnings) :
                  r.warnings[k].message.text # "Qty x Price differs from Amount"

\* a validated record of two items: the first, with an empty name, is
\* reported as "Item #1" on line_items[0]; the second lacks its unit price
\* and is not reported
C24_Witness ==
    /\ pc = "validated"
    /\ Len(extracted_data.line_items) = 2
    /\ extracted_data.line_items[1].product_name = Some("")
    /\ extracted_data.line_items[2].unit_price = None
    /\ \E k \in 1..Len(validation_result.errors) :
          /\ validation_result.errors[k].field = "line_items[0]"
          /\ validation_result.errors[k].message.args[1] = "Item #1"
    /\ Cardinality(ErrorsWithText(validation_result,
                                  "Qty x Price differs from Amount")) = 1

(***************************************************************************)
(* C25, C26: uploads whose extraction or whose save fails                  *)
(***************************************************************************)

\* the ways extract_invoice_data raises
ExtractionFailures == {"llm_error", "invalid_json", "unexpected_type"}

\* C25: an upload whose extraction raises (model service error, unparseable
\* output after the repair, unexpected output type) validates nothing,
\* stores nothing and ends with the 500 PROCESSING_ERROR response: the stored
\* invoices are those from before the request.
C25_ExtractionFailureTerminal ==
    [][(request'.op = "upload" /\ request'.llm \in ExtractionFailures) =>
          /\ response' = ErrorResponse(500, "PROCESSING_ERROR")
          /\ invoices' = invoices
          /\ validation_result' = validation_result
          /\ session' = session
          /\ extracted_data' = extracted_data]_vars

\* an upload has failed on unparseable model output while an invoice from an
\* earlier upload is stored
C25_Witness ==
    /\ pc = "upload_failed"
    /\ request.op = "upload" /\ request.llm = "invalid_json"
    /\ response = ErrorResponse(500, "PROCESSING_ERROR")
    /\ Len(invoices) = 1

\* C26: an upload whose save raises stores no record and still returns the
\* extracted data and validation result it would have returned had the save
\* succeeded, with success = is_valid and processing_success = true.
C26_SaveFailureStillAnswers ==
    [][(request'.op = "upload" /\ request'.commit = "raises") =>
          /\ invoices' = invoices
          /\ extracted_data' = ApplyMathCorrections(raw')
          /\ validation_result' = Validate(extracted_data', session')
          /\ response' = OkResponse(InvoiceResponse(extracted_data',
                                                    validation_result'))
          /\ Val(response'.body).success = validation_result'.is_valid
          /\ Val(response'.body).processing_success]_vars

\* an upload of a record with validation errors was answered in full though
\* its save failed, the table still holding one earlier invoice only
C26_Witness ==
    /\ pc = "upload_unsaved"
    /\ request.commit = "raises" /\ request.query = "ok"
    /\ response.status_code = 200
    /\ ~Val(response.body).success
    /\ Val(response.body).validation.errors # <<>>
    /\ Len(invoices) = 1

(***************************************************************************)
(* C27: the status filter of an export request                             *)
(***************************************************************************)

\* C27: an export request whose status filter is not one of PENDING,
\* REVIEW_REQUIRED, APPROVED (compared case-insensitively) is rejected with
\* the 400 INVALID_STATUS response and produces no file; a request with no
\* status filter or a valid one produces the file.  (An empty filter is left
\* to either outcome; the fetch is taken to succeed.)
C27_ExportStatusFilter ==
    [][(request'.op = "export" /\ request'.query # "raises") =>
          LET filter == request'.status
          IN  /\ (Truthy(filter) /\ Upper(Val(filter)) \notin valid_statuses)
                    => response' = ErrorResponse(400, "INVALID_STATUS")
              /\ (filter = None
                  \/ (Truthy(filter) /\ Upper(Val(filter)) \in valid_statuses))
                    => /\ response'.status_code = 200
                       /\ response'.body # None]_vars

(***************************************************************************)
(* C28: status and validity of the stored invoices                         *)
(***************************************************************************)

\* C28: in every state reached by uploads and approve requests, every stored
\* invoice has a status among PENDING, REVIEW_REQUIRED, APPROVED and has
\* is_valid = false exactly when its status is REVIEW_REQUIRED; so an invoice
\* stored with validation errors is never APPROVED.
C28_StatusMatchesValidity ==
    \A i \in 1..Len(invoices) :
       /\ invoices[i].status \in {"PENDING", "REVIEW_REQUIRED", "APPROVED"}
       /\ ~invoices[i].is_valid <=> invoices[i].status = "REVIEW_REQUIRED"
       /\ ReadFindings(invoices[i], "error") # <<>>
             => invoices[i].status = "REVIEW_REQUIRED"

\* the table holds an approved invoice stored with warnings beside one under
\* review, after an approve request on the latter was answered
C28_Witness ==
    /\ pc = "approve"
    /\ request.read_status = "REVIEW_REQUIRED"
    /\ Len(invoices) = 2
    /\ invoices[1].status = "APPROVED" /\ invoices[1].is_valid
    /\ ReadFindings(invoices[1], "warning") # <<>>
    /\ invoices[2].status = "REVIEW_REQUIRED" /\ ~invoices[2].is_valid
    /\ ReadFindings(invoices[2], "error") # <<>>

-----------------------------------------------------------------------------
(* routes.py: upload_invoice served by several workers at once *)

\* The service is started with several worker processes over one database
\* (main.py line 11), so one upload's duplicate lookup (validator.py lines
\* 166-168) and its commit (routes.py line 244) are separate steps between
\* which another worker's lookup or commit can fall.  The invoices table has
\* no unique constraint on invoice_number (orm_models.py line 47) and the
\* handler takes no lock.  Lookups and commits succeed here.

\* the number of uploads running side by side
MaxUploads == 2

Workers == 1..MaxUploads

NoUpload == [pc |-> "start", data |-> None, result |-> None, id |-> 0]

\* model outputs that all carry the invoice number INV-1: one without
\* findings, one with warnings only, one with a wrong total
ConcurrentInputs ==
    {CleanRecord("INV-1"),
     [CleanRecord("INV-1") EXCEPT !.invoice_date = None, !.currency = None],
     [CleanRecord("INV-1") EXCEPT !.subtotal = Some(30000),
                                  !.total_amount = Some(39300)]}

InitConcurrent ==
    /\ pc = "start"
    /\ raw = EmptyInvoiceData
    /\ extracted_data = EmptyInvoiceData
    /\ session = NoSession
    /\ validation_result = NoResult
    /\ invoices = <<>>
    /\ request = NoRequest
    /\ response = NoResponse
    /\ extraction = NoExtraction
    /\ uploads = [w \in Workers |-> NoUpload]

\* routes.py line 170: the worker's record is extracted and corrected
ExtractStep(w) ==
    /\ uploads[w].pc = "start"
    /\ \E output \in ConcurrentInputs :
          uploads' = [uploads EXCEPT
                         ![w].pc = "extracted",
                         ![w].data = Some(ApplyMathCorrections(output))]
    /\ UNCHANGED <<pc, raw, extracted_data, session, validation_result,
                   invoices, request, response, extraction>>

\* routes.py line 175: validate, its duplicate lookup reading the rows
\* committed so far
ValidateStep(w) ==
    /\ uploads[w].pc = "extracted"
    /\ LET data == Val(uploads[w].data)
       IN  \E existing \in FirstOutcomes(data.invoice_number) :
              uploads' = [uploads EXCEPT
                             ![w].pc = "validated",
                             ![w].result =
                                 Some(Validate(data, SessionAnswering(existing)))]
    /\ UNCHANGED <<pc, raw, extracted_data, session, validation_result,
                   invoices, request, response, extraction>>

\* routes.py lines 178-180 and 194-246: the status is taken from the result
\* computed at the lookup, and the row is added and committed
SaveStep(w) ==
    /\ uploads[w].pc = "validated"
    /\ invoices' = Append(invoices,
                          InvoiceRow(Len(invoices) + 1, Val(uploads[w].data),
                                     Val(uploads[w].result)))
    /\ uploads' = [uploads EXCEPT ![w].pc = "saved",
                                  ![w].id = Len(invoices) + 1]
    /\ UNCHANGED <<pc, raw, extracted_data, session, validation_result,
                   request, response, extraction>>

NextConcurrent ==
    \E w \in Workers : ExtractStep(w) \/ ValidateStep(w) \/ SaveStep(w)

SpecConcurrent == InitConcurrent /\ [][NextConcurrent]_vars

(***************************************************************************)
(* C29: concurrent uploads of one invoice number                           *)
(***************************************************************************)

\* C29: under any interleaving of concurrent uploads that carry the same
\* non-empty invoice number, with lookups and saves that succeed, at most one
\* stored invoice has a status other than REVIEW_REQUIRED, and every upload
\* stored after the first one received the duplicate-invoice error.
C29_OneUploadPerNumber ==
    /\ Cardinality({i \in 1..Len(invoices) :
                       invoices[i].status # "REVIEW_REQUIRED"}) <= 1
    /\ \A w \in DOMAIN uploads :
          (uploads[w].pc = "saved" /\ uploads[w].id > 1) =>
              ErrorsWithText(Val(uploads[w].result),
                             "Invoice number already exists") # {}

====
